---------------------------- MODULE Spec2Model ----------------------------
(***************************************************************************)
(* Model of the orchestration core of DocAnalyzer:                         *)
(*   - EvaluationQueue        (src/api/evaluation_queue.py)                *)
(*   - TokenRateLimiter       (src/api/rate_limiter.py)                    *)
(*   - DualVisionComparator   (src/api/vision_responses_evaluator.py)      *)
(* Each component has its own specification over the shared variable list; *)
(* a specification leaves the other components' variables unchanged.       *)
(***************************************************************************)
EXTENDS Integers, Sequences, FiniteSets, TLC

VARIABLES
    \* ---- EvaluationQueue ----
    items,        \* the QueueItem objects ever created: item id -> fields
    pending,      \* self._pending: list of item ids
    processing,   \* self._processing: evaluation_id -> item id
    completed,    \* self._completed: insertion-ordered dict, as a list of
                  \* <<evaluation_id, item id>> pairs
    tasks,        \* in-flight _process_item tasks (the item each one holds)
    wpc,          \* _worker_loop tasks ever created: worker -> position
    workerTask,   \* self._worker_task (0 = None)
    shutdown,     \* self._shutdown
    stopCall,     \* the stop() call in flight: [pc, target]
    \* ---- TokenRateLimiter ----
    now,          \* time.monotonic(), in ticks of 0.1 s
    usageWindow,  \* self._usage_window: list of [timestamp, tokens]
    lockOwner,    \* holder of self._lock (0 = free)
    lastRequestTime, \* self._last_request_time
    callers,      \* the acquire() calls in progress: caller -> [pc, tokens, wake]
    \* ---- DualVisionComparator ----
    claudeResults,  \* requirements_results of the primary (claude) summary
    openaiResults,  \* requirements_results of the secondary (openai) summary
    combined,       \* what _combine_results returned (done = FALSE before it ran)
    \* ---- VisionResponsesEvaluator ----
    evaluator,      \* one _evaluate_single_requirement call: [provider, stack,
                    \* pc, log, result]
    summary,        \* the evaluation_summary last generated: [by, total,
                    \* status_counts, compliance_score (in tenths)]
    run,            \* one comparator run: for each side the state of its
                    \* evaluator's evaluate_document, [pc, tasks]
    construct,      \* one construction of an evaluator or of the comparator:
                    \* [provider, env, pc, kind, object, error]
    fanout          \* one evaluate_document fan-out: [provider,
                    \* concurrent_requests, semaphore, tasks]

queueVars == <<items, pending, processing, completed, tasks, wpc, workerTask,
               shutdown, stopCall>>
limiterVars == <<now, usageWindow, lockOwner, lastRequestTime, callers>>
mergeVars == <<claudeResults, openaiResults, combined>>
evalVars == <<evaluator>>
summaryVars == <<summary>>
runVars == <<run>>
constructVars == <<construct>>
fanoutVars == <<fanout>>
vars == <<queueVars, limiterVars, mergeVars, evalVars, summaryVars, runVars,
          constructVars,
          fanoutVars>>

(***************************************************************************)
(* Generic helpers                                                         *)
(***************************************************************************)
Range(s) == {s[i] : i \in DOMAIN s}

RemoveAt(s, i) == SubSeq(s, 1, i - 1) \o SubSeq(s, i + 1, Len(s))

Max(a, b) == IF a >= b THEN a ELSE b

(***************************************************************************)
(* EvaluationQueue                                                         *)
(***************************************************************************)
\* Bounds of the model
NumEvalIds == 3      \* distinct evaluation ids callers use
MaxItems == 3        \* QueueItem objects created in one run
MaxWorkers == 2      \* _worker_loop tasks alive or still referenced at once
\* QueueConfig
max_concurrent == 2
max_queue_size == 2
\* history limits of _process_item
HistoryLimit == 50
EvictCount == 10

EvalIds == 1..NumEvalIds
Workers == 1..MaxWorkers

\* Evaluation ids are opaque to the queue (it only compares them), so a run is
\* taken up to renaming of ids: ids come into use in the order 1, 2, 3, ...
\* and a call names an id already used or the next unused one.
UsedIds == {items[k].evaluation_id : k \in DOMAIN items}
CallIds == {e \in EvalIds : e <= Cardinality(UsedIds) + 1}

NoStop == [pc |-> "idle", target |-> 0]

QueueFrame == UNCHANGED <<now, usageWindow, lockOwner, lastRequestTime, callers,
                          claudeResults, openaiResults, combined, evaluator,
                          summary, run, construct, fanout>>

\* QueueItem(...) with the dataclass defaults; created_at is the order of
\* creation
NewItem(eid, seqno) ==
    [evaluation_id |-> eid, created_at |-> seqno, status |-> "queued",
     position |-> 0, started_at |-> 0, completed_at |-> 0,
     error_message |-> "none"]

\* _update_positions applied to the pending list p over the item table tbl
UpdatePositionsSkipped(tbl, p) == tbl
UpdatePositionsZeroBased(tbl, p) ==
    [k \in DOMAIN tbl |->
        IF \E i \in DOMAIN p : p[i] = k
        THEN [tbl[k] EXCEPT !.position = (CHOOSE i \in DOMAIN p : p[i] = k) - 1]
        ELSE tbl[k]]
UpdatePositions(tbl, p) ==
    [k \in DOMAIN tbl |->
        IF \E i \in DOMAIN p : p[i] = k
        THEN [tbl[k] EXCEPT !.position = CHOOSE i \in DOMAIN p : p[i] = k]
        ELSE tbl[k]]

\* len(self._pending) >= self.config.max_queue_size
QueueFullOffByOne == Len(pending) > max_queue_size
QueueFull == Len(pending) >= max_queue_size

\* evaluation_id in self._processing
InProcessingNever(eid) == FALSE
InProcessing(eid) == eid \in DOMAIN processing

\* the scan "for item in self._pending: if item.evaluation_id == evaluation_id"
\* index of the first match, 0 when there is none
PendingIndexHead(eid) ==
    IF \E i \in DOMAIN pending : items[pending[i]].evaluation_id = eid
    THEN 1
    ELSE 0
PendingIndex(eid) ==
    IF \E i \in DOMAIN pending : items[pending[i]].evaluation_id = eid
    THEN CHOOSE i \in DOMAIN pending :
            /\ items[pending[i]].evaluation_id = eid
            /\ \A j \in 1..(i - 1) : items[pending[j]].evaluation_id # eid
    ELSE 0

\* len(self._pending) > 0
HasWorkOffByOne == Len(pending) > 1
HasWork == Len(pending) > 0

\* len(self._processing) < self.config.max_concurrent
HasSlotOffByOne == Cardinality(DOMAIN processing) <= max_concurrent
HasSlot == Cardinality(DOMAIN processing) < max_concurrent

\* self._pending.pop(0): the index the worker pops
PopIndexLast == Len(pending)
PopIndex == 1

\* self._slot_available.notify(): wakes one worker waiting on the condition
\* (none waiting: the notification is lost); wp is the worker table
WaitingWorkers(wp) == {w \in DOMAIN wp : wp[w] = "wait"}
NotifyLost(wp, wp2) == wp2 = wp
NotifyOne(wp, wp2) ==
    IF WaitingWorkers(wp) = {}
    THEN wp2 = wp
    ELSE \E w \in WaitingWorkers(wp) : wp2 = [wp EXCEPT ![w] = "loop"]
\* self._slot_available.notify_all()
NotifyAll(wp) == [w \in DOMAIN wp |-> IF wp[w] = "wait" THEN "loop" ELSE wp[w]]

\* A finished worker task that neither self._worker_task nor a stop() call
\* refers to any more is garbage: its slot in the worker table is free again.
Collect(wp, wt, st) ==
    [w \in DOMAIN wp |->
        IF wp[w] = "ended" /\ w # wt /\ w # st.target THEN "none" ELSE wp[w]]

\* what enqueue(eid) returns in the current state: the exception raised, or
\* the tuple (item, position)
EnqueueReturn(eid) ==
    IF QueueFull
    THEN [raised |-> TRUE, item |-> 0, position |-> 0]
    ELSE IF InProcessing(eid)
    THEN [raised |-> FALSE, item |-> processing[eid], position |-> 0]
    ELSE IF PendingIndex(eid) # 0
    THEN [raised |-> FALSE, item |-> pending[PendingIndex(eid)],
          position |-> items[pending[PendingIndex(eid)]].position]
    ELSE [raised |-> FALSE, item |-> Len(items) + 1,
          position |-> UpdatePositions(
                          Append(items, NewItem(eid, Len(items) + 1)),
                          Append(pending, Len(items) + 1))[Len(items) + 1].position]

\* EvaluationQueue.enqueue: its effect on the queue
Enqueue(eid) ==
    /\ QueueFrame
    /\ UNCHANGED <<processing, completed, tasks, workerTask, shutdown, stopCall>>
    /\ IF QueueFull \/ InProcessing(eid) \/ PendingIndex(eid) # 0
       THEN UNCHANGED <<items, pending, wpc>>
       ELSE /\ Len(items) < MaxItems
            /\ LET id == Len(items) + 1
                   p2 == Append(pending, id)
               IN  /\ pending' = p2
                   /\ items' = UpdatePositions(Append(items, NewItem(eid, id)), p2)
            /\ NotifyOne(wpc, wpc')

\* what cancel(eid) returns in the current state
CancelReturn(eid) == PendingIndex(eid) # 0

\* EvaluationQueue.cancel: its effect on the queue
Cancel(eid) ==
    /\ QueueFrame
    /\ UNCHANGED <<processing, completed, tasks, wpc, workerTask, shutdown,
                   stopCall>>
    /\ IF PendingIndex(eid) # 0
       THEN LET p2 == RemoveAt(pending, PendingIndex(eid))
            IN  /\ pending' = p2
                /\ items' = UpdatePositions(items, p2)
       ELSE UNCHANGED <<items, pending>>

\* EvaluationQueue.start
Start ==
    /\ QueueFrame
    /\ UNCHANGED <<items, pending, processing, completed, tasks, stopCall>>
    /\ IF workerTask = 0 \/ wpc[workerTask] = "ended"
       THEN \E w \in Workers :
               /\ Collect(wpc, 0, stopCall)[w] = "none"
               /\ \A v \in 1..(w - 1) : Collect(wpc, 0, stopCall)[v] # "none"
               /\ shutdown' = FALSE
               /\ wpc' = [Collect(wpc, 0, stopCall) EXCEPT ![w] = "loop"]
               /\ workerTask' = w
       ELSE UNCHANGED <<shutdown, wpc, workerTask>>

\* EvaluationQueue.stop, up to its await of the worker task
StopBegin ==
    /\ QueueFrame
    /\ stopCall.pc = "idle"
    /\ shutdown' = TRUE
    /\ wpc' = NotifyAll(wpc)
    /\ stopCall' = IF workerTask # 0
                   THEN [pc |-> "await", target |-> workerTask]
                   ELSE NoStop
    /\ UNCHANGED <<items, pending, processing, completed, tasks, workerTask>>

\* stop: wait_for(self._worker_task, 5.0) times out and the worker is cancelled
\* at the point where it is suspended
StopTimeout ==
    /\ QueueFrame
    /\ stopCall.pc = "await"
    /\ wpc[stopCall.target] \in {"loop", "wait"}
    /\ wpc' = [wpc EXCEPT ![stopCall.target] = "ended"]
    /\ UNCHANGED <<items, pending, processing, completed, tasks, workerTask,
                   shutdown, stopCall>>

\* stop: the awaited worker task is done; self._worker_task = None
StopFinish ==
    /\ QueueFrame
    /\ stopCall.pc = "await"
    /\ wpc[stopCall.target] = "ended"
    /\ workerTask' = 0
    /\ stopCall' = NoStop
    /\ wpc' = Collect(wpc, 0, NoStop)
    /\ UNCHANGED <<items, pending, processing, completed, tasks, shutdown>>

\* _worker_loop: one iteration of its outer loop, from the shutdown test to
\* the launch of the popped item's task or to the wait on the condition. No
\* await in it suspends (the state lock and the condition's lock are never held
\* across a suspension, so acquiring them does not yield), except the wait.
WorkerStep(w) ==
    /\ QueueFrame
    /\ wpc[w] = "loop"
    /\ UNCHANGED <<completed, workerTask, shutdown, stopCall>>
    /\ IF shutdown
       THEN /\ wpc' = Collect([wpc EXCEPT ![w] = "ended"], workerTask, stopCall)
            /\ UNCHANGED <<items, pending, processing, tasks>>
       ELSE IF ~(HasWork /\ HasSlot)
       THEN /\ wpc' = [wpc EXCEPT ![w] = "wait"]
            /\ UNCHANGED <<items, pending, processing, tasks>>
       ELSE LET id == pending[PopIndex]
                p2 == RemoveAt(pending, PopIndex)
                t1 == [items EXCEPT ![id].status = "processing",
                                    ![id].started_at = 1]
                eid == items[id].evaluation_id
            IN  /\ pending' = p2
                /\ processing' = [e \in DOMAIN processing \cup {eid} |->
                                     IF e = eid THEN id ELSE processing[e]]
                /\ items' = UpdatePositions(t1, p2)
                /\ tasks' = tasks \cup {id}
                /\ UNCHANGED wpc

\* self._completed[item.evaluation_id] = item, then the eviction of the oldest
\* entries when more than HistoryLimit are kept
HistoryPut(h, eid, id) ==
    LET h2 == IF \E i \in DOMAIN h : h[i][1] = eid
              THEN [i \in DOMAIN h |-> IF h[i][1] = eid THEN <<eid, id>> ELSE h[i]]
              ELSE Append(h, <<eid, id>>)
    IN  IF Len(h2) > HistoryLimit
        THEN SubSeq(h2, EvictCount + 1, Len(h2))
        ELSE h2

\* how the awaited callback ends: it returns, wait_for times out, or an
\* exception is raised (by the callback, or the RuntimeError for a callback
\* that was never set)
Outcomes == {"returned", "timeout", "exception"}

\* item.status and item.error_message as the branches of _process_item set
\* them
TerminalStatusCompleted(outcome) == "completed"
TerminalStatusKept(outcome) == "processing"
TerminalStatus(outcome) ==
    IF outcome = "returned" THEN "completed" ELSE "failed"
TerminalMessage(outcome) ==
    IF outcome = "returned" THEN "none"
    ELSE IF outcome = "timeout" THEN "Evaluation timed out"
    ELSE "exception text"

\* self._processing.pop(item.evaluation_id, None)
ProcessingPopSkipped(eid) == processing
ProcessingPop(eid) == [e \in DOMAIN processing \ {eid} |-> processing[e]]

\* _process_item, from the end of the awaited callback to its last line
ProcessItemFinish(id, outcome) ==
    /\ QueueFrame
    /\ id \in tasks
    /\ tasks' = tasks \ {id}
    /\ items' = [items EXCEPT
                   ![id].status = TerminalStatus(outcome),
                   ![id].error_message = TerminalMessage(outcome),
                   ![id].completed_at = 1]
    /\ processing' = ProcessingPop(items[id].evaluation_id)
    /\ completed' = HistoryPut(completed, items[id].evaluation_id, id)
    /\ NotifyOne(wpc, wpc')
    /\ UNCHANGED <<pending, workerTask, shutdown, stopCall>>

\* QueueItem.to_dict of the item with the given index in the item table
ToDict(id) ==
    [queue_item_id |-> id,
     evaluation_id |-> items[id].evaluation_id,
     status |-> items[id].status,
     position |-> items[id].position,
     created_at |-> items[id].created_at,
     started_at |-> items[id].started_at,
     completed_at |-> items[id].completed_at,
     error_message |-> items[id].error_message]

\* evaluation_id in self._completed, and the item stored under it
InCompleted(eid) == \E i \in DOMAIN completed : completed[i][1] = eid
CompletedItem(eid) ==
    completed[CHOOSE i \in DOMAIN completed : completed[i][1] = eid][2]

None == [found |-> FALSE]
Found(dict) == [found |-> TRUE, item |-> dict]

\* what get_item_status(eid) returns in the current state
GetItemStatusHistoryFirst(eid) ==
    IF InCompleted(eid) THEN Found(ToDict(CompletedItem(eid)))
    ELSE IF InProcessing(eid) THEN Found(ToDict(processing[eid]))
    ELSE IF PendingIndex(eid) # 0 THEN Found(ToDict(pending[PendingIndex(eid)]))
    ELSE None
GetItemStatusReturn(eid) ==
    IF InProcessing(eid) THEN Found(ToDict(processing[eid]))
    ELSE IF PendingIndex(eid) # 0 THEN Found(ToDict(pending[PendingIndex(eid)]))
    ELSE IF InCompleted(eid) THEN Found(ToDict(CompletedItem(eid)))
    ELSE None

\* EvaluationQueue.get_item_status, called with any id: its effect on the
\* queue
GetItemStatus ==
    /\ QueueFrame
    /\ UNCHANGED queueVars

QueueNext ==
    \/ \E eid \in CallIds : Enqueue(eid)
    \/ \E eid \in CallIds : Cancel(eid)
    \/ GetItemStatus
    \/ Start
    \/ StopBegin
    \/ StopTimeout
    \/ StopFinish
    \/ \E w \in Workers : WorkerStep(w)
    \/ \E id \in tasks, o \in Outcomes : ProcessItemFinish(id, o)

(***************************************************************************)
(* TokenRateLimiter                                                        *)
(* Time is counted in ticks of 0.1 s, the literal buffer of acquire. The    *)
(* clock starts anywhere from 0 to one minimum delay after time 0.0, the   *)
(* initial value of _last_request_time.                                    *)
(***************************************************************************)
\* Bounds of the model
NumCallers == 2           \* tasks that call acquire
\* RateLimiterConfig, in tokens and ticks: a small budget and a short window
\* (bounds of the model), the default minimum delay of 0.1 s and safety margin
max_tokens_per_minute == 3
window_seconds == 2
min_delay_between_requests == 1
safety_margin_percent == 85
\* the 0.1 s "small buffer" of acquire
SmallBuffer == 1

Callers == 1..NumCallers
Idle == [pc |-> "idle", tokens |-> 0, wake |-> 0]

LimiterFrame == UNCHANGED <<queueVars, mergeVars, evalVars, summaryVars,
                            runVars, constructVars,
          fanoutVars>>

\* self._effective_limit = int(max_tokens_per_minute * safety_margin)
EffectiveLimit == (max_tokens_per_minute * safety_margin_percent) \div 100

\* Callers pass estimates up to the effective limit (0 stands for None); the
\* configured default estimate is the largest of them. The clock runs for two
\* ticks more than one window.
MaxTokens == EffectiveLimit
max_estimated_tokens_per_request == MaxTokens
MaxTime == window_seconds + 2

\* _prune_old_records with "<=" for "<": the record that is exactly one
\* window old is popped too
RECURSIVE PruneOldRecordsInclusive(_, _)
PruneOldRecordsInclusive(w, t) ==
    IF w # <<>> /\ w[1].timestamp <= t - window_seconds
    THEN PruneOldRecordsInclusive(Tail(w), t)
    ELSE w

\* _prune_old_records: pop records from the left while they are older than
\* the window
RECURSIVE PruneOldRecords(_, _)
PruneOldRecords(w, t) ==
    IF w # <<>> /\ w[1].timestamp < t - window_seconds
    THEN PruneOldRecords(Tail(w), t)
    ELSE w

\* sum(record.tokens for record in self._usage_window)
RECURSIVE SumTokens(_)
SumTokens(w) == IF w = <<>> THEN 0 ELSE w[1].tokens + SumTokens(Tail(w))

\* _current_usage
CurrentUsage(w, t) == SumTokens(PruneOldRecords(w, t))

\* tokens = estimated_tokens or self.config.max_estimated_tokens_per_request
TokensFor(estimated) ==
    IF estimated = 0 THEN max_estimated_tokens_per_request ELSE estimated

\* time_since_last < self.config.min_delay_between_requests
TooSoonNever(t) == FALSE
TooSoon(t) == t - lastRequestTime < min_delay_between_requests

\* current_usage + tokens <= self._effective_limit
HasCapacityIgnoringRequest(usage, tokens) == usage <= EffectiveLimit
HasCapacity(usage, tokens) == usage + tokens <= EffectiveLimit

\* the wait computed from the oldest record (w is the pruned ledger)
WaitTime(w, t) ==
    Max(IF w # <<>>
        THEN w[1].timestamp + window_seconds - t + SmallBuffer
        ELSE SmallBuffer,
        SmallBuffer)

\* acquire: the capacity test at time t on the pruned ledger w, the grant or
\* the release of the lock for the capacity wait
CapacityStep(c, w, t) ==
    IF HasCapacity(SumTokens(w), callers[c].tokens)
    THEN /\ usageWindow' = Append(w, [timestamp |-> t,
                                      tokens |-> callers[c].tokens])
         /\ lastRequestTime' = t
         /\ lockOwner' = 0
         /\ callers' = [callers EXCEPT ![c].pc = "granted", ![c].wake = 0]
    ELSE /\ usageWindow' = w
         /\ lockOwner' = 0
         /\ callers' = [callers EXCEPT ![c].pc = "capSleep",
                                       ![c].wake = t + WaitTime(w, t)]
         /\ UNCHANGED lastRequestTime

\* acquire is called: tokens are fixed and the caller asks for the lock
AcquireCall(c, estimated) ==
    /\ LimiterFrame
    /\ callers[c].pc = "idle"
    /\ callers' = [callers EXCEPT ![c] = [pc |-> "waitLock",
                                          tokens |-> TokensFor(estimated),
                                          wake |-> 0]]
    /\ UNCHANGED <<now, usageWindow, lockOwner, lastRequestTime>>

\* acquire: the lock is obtained (on entry, or after a capacity wait) and one
\* pass of the loop runs up to its first suspension
AcquireLoop(c) ==
    /\ LimiterFrame
    /\ callers[c].pc = "waitLock"
    /\ lockOwner = 0
    /\ UNCHANGED now
    /\ LET w == PruneOldRecords(usageWindow, now)
       IN  IF TooSoon(now)
           THEN /\ usageWindow' = w
                /\ lockOwner' = c
                /\ callers' = [callers EXCEPT
                                 ![c].pc = "gapSleep",
                                 ![c].wake = now + (min_delay_between_requests
                                                    - (now - lastRequestTime))]
                /\ UNCHANGED lastRequestTime
           ELSE CapacityStep(c, w, now)

\* acquire: the sleep for the minimum delay is over (the lock was held all
\* along); time and usage are read again and the capacity test follows
AcquireAfterDelay(c) ==
    /\ LimiterFrame
    /\ callers[c].pc = "gapSleep"
    /\ now >= callers[c].wake
    /\ UNCHANGED now
    /\ CapacityStep(c, PruneOldRecords(usageWindow, now), now)

\* acquire: the capacity wait is over; the caller asks for the lock again
AcquireAfterWait(c) ==
    /\ LimiterFrame
    /\ callers[c].pc = "capSleep"
    /\ now >= callers[c].wake
    /\ callers' = [callers EXCEPT ![c].pc = "waitLock", ![c].wake = 0]
    /\ UNCHANGED <<now, usageWindow, lockOwner, lastRequestTime>>

\* record_actual_usage: index of the most recent record whose tokens equal
\* the estimate, 0 when there is none (w is the pruned ledger)
MatchIndexOldest(w, estimated) ==
    IF \E i \in DOMAIN w : w[i].tokens = estimated
    THEN CHOOSE i \in DOMAIN w :
            /\ w[i].tokens = estimated
            /\ \A j \in DOMAIN w : w[j].tokens = estimated => i <= j
    ELSE 0
MatchIndex(w, estimated) ==
    IF \E i \in DOMAIN w : w[i].tokens = estimated
    THEN CHOOSE i \in DOMAIN w :
            /\ w[i].tokens = estimated
            /\ \A j \in DOMAIN w : w[j].tokens = estimated => j <= i
    ELSE 0

\* TokenRateLimiter.record_actual_usage, called by a task whose acquire was
\* granted, with the estimate it acquired (its callers pass the same
\* estimated_tokens to both) and the usage the backend reported; the call
\* runs when the lock is free
RecordActualUsage(c, estimated, actual) ==
    /\ LimiterFrame
    /\ callers[c].pc = "granted"
    /\ lockOwner = 0
    /\ LET w == PruneOldRecords(usageWindow, now)
           i == MatchIndex(w, estimated)
       IN  usageWindow' =
              IF i # 0
              THEN [w EXCEPT ![i] = [timestamp |-> w[i].timestamp,
                                     tokens |-> actual]]
              ELSE Append(w, [timestamp |-> now, tokens |-> actual])
    /\ callers' = [callers EXCEPT ![c] = Idle]
    /\ UNCHANGED <<now, lockOwner, lastRequestTime>>

\* the task's backend call ends without a correction of its charge (the call
\* raised, or the task only needed the permission)
CallerDone(c) ==
    /\ LimiterFrame
    /\ callers[c].pc = "granted"
    /\ callers' = [callers EXCEPT ![c] = Idle]
    /\ UNCHANGED <<now, usageWindow, lockOwner, lastRequestTime>>

\* the monotonic clock advances
Tick ==
    /\ LimiterFrame
    /\ now < MaxTime
    /\ now' = now + 1
    /\ UNCHANGED <<usageWindow, lockOwner, lastRequestTime, callers>>

\* handle_429_error: the literals 5.0 (extra buffer and least wait) and 10.0
\* (wait with an empty window), in ticks
Buffer429 == 50
Floor429 == 50
Default429 == 100
\* the retry-after values a backend error carries, in ticks
MaxRetryAfter == 2

\* what handle_429_error returns in the current state; given is FALSE for
\* retry_after_seconds = None
Handle429ReturnNoFloor(given, retry_after_seconds) ==
    IF given /\ retry_after_seconds # 0 /\ retry_after_seconds > 0
    THEN retry_after_seconds
    ELSE IF usageWindow # <<>>
    THEN usageWindow[1].timestamp + window_seconds - now + Buffer429
    ELSE Default429
Handle429Return(given, retry_after_seconds) ==
    IF given /\ retry_after_seconds # 0 /\ retry_after_seconds > 0
    THEN retry_after_seconds
    ELSE IF usageWindow # <<>>
    THEN Max(usageWindow[1].timestamp + window_seconds - now + Buffer429,
             Floor429)
    ELSE Default429

\* TokenRateLimiter.handle_429_error: its effect on the limiter; the call runs
\* when the lock is free
Handle429 ==
    /\ LimiterFrame
    /\ lockOwner = 0
    /\ UNCHANGED limiterVars

\* the monotonic clock advances without end. Only time differences are read,
\* so once the clock shows MaxTime every time kept in the state is moved back
\* by one tick instead; a time that has fallen more than a window behind is
\* kept at 0 (its record is pruned at the next access, its sleep is over, its
\* minimum delay has passed).
Earlier(t) == Max(t - 1, 0)

\* a caller can run now: the lock it asks for is free, or its sleep is over
Runnable(c) ==
    \/ callers[c].pc = "waitLock" /\ lockOwner = 0
    \/ callers[c].pc \in {"capSleep", "gapSleep"} /\ now >= callers[c].wake

\* time passes only when no caller can run: the event loop runs a task as
\* soon as it is ready
TickForever ==
    /\ LimiterFrame
    /\ \A c \in Callers : ~Runnable(c)
    /\ UNCHANGED lockOwner
    /\ IF now < MaxTime
       THEN /\ now' = now + 1
            /\ UNCHANGED <<usageWindow, lastRequestTime, callers>>
       ELSE /\ now' = now
            /\ usageWindow' =
                  [i \in DOMAIN usageWindow |->
                      [usageWindow[i] EXCEPT !.timestamp = Earlier(@)]]
            /\ lastRequestTime' = Earlier(lastRequestTime)
            /\ callers' = [c \in Callers |->
                              [callers[c] EXCEPT !.wake = Earlier(@)]]

AcquireNext ==
    \/ \E c \in Callers, e \in 0..MaxTokens : AcquireCall(c, e)
    \/ \E c \in Callers : AcquireLoop(c)
    \/ \E c \in Callers : AcquireAfterDelay(c)
    \/ \E c \in Callers : AcquireAfterWait(c)
    \/ \E c \in Callers : CallerDone(c)
    \/ Tick

LimiterNext ==
    \/ \E c \in Callers, e \in 0..MaxTokens : AcquireCall(c, e)
    \/ \E c \in Callers : AcquireLoop(c)
    \/ \E c \in Callers : AcquireAfterDelay(c)
    \/ \E c \in Callers : AcquireAfterWait(c)
    \/ \E c \in Callers : CallerDone(c)
    \/ \E c \in Callers, a \in 0..MaxTokens :
          RecordActualUsage(c, callers[c].tokens, a)
    \/ Handle429
    \/ Tick

(***************************************************************************)
(* DualVisionComparator                                                    *)
(* A verdict is [requirement_id, status, confidence, content, tokens_used, *)
(* fallback_provider]; content stands for the rationale, evidence, gaps    *)
(* and recommendations and names the side that produced them. Statuses are *)
(* upper case and confidences lower case, as .upper() and .lower() leave   *)
(* them.                                                                   *)
(***************************************************************************)
\* Bound of the model
NumRequirements == 1     \* requirements of the checklist

Statuses == {"PASS", "FAIL", "FLAGGED", "PARTIAL", "NOT_APPLICABLE", "ERROR"}
Confidences == {"low", "medium", "high"}

MergeFrame == UNCHANGED <<queueVars, limiterVars, evalVars, runVars,
                          constructVars,
          fanoutVars>>

NoRecords == <<>>
NoCallers == <<>>
NotRun == [done |-> FALSE, results |-> <<>>, agreement_map |-> <<>>,
           total_tokens |-> 0]

\* DualVisionComparator.STATUS_PRIORITY, with the default of .get(status, 3)
StatusPriority(status) ==
    CASE status = "FAIL" -> 4
      [] status = "PARTIAL" -> 3
      [] status = "FLAGGED" -> 3
      [] status = "ERROR" -> 3
      [] status = "PASS" -> 2
      [] status = "NOT_APPLICABLE" -> 1
      [] OTHER -> 3

\* DualVisionComparator.CONFIDENCE_PRIORITY, with the default of .get(conf, 0)
ConfidencePriority(conf) ==
    CASE conf = "low" -> 0
      [] conf = "medium" -> 1
      [] conf = "high" -> 2
      [] OTHER -> 0

\* _more_conservative_status
MoreConservativeStatusInverted(status_a, status_b) ==
    IF StatusPriority(status_a) = StatusPriority(status_b) THEN status_a
    ELSE IF StatusPriority(status_a) < StatusPriority(status_b) THEN status_a
    ELSE status_b
MoreConservativeStatus(status_a, status_b) ==
    IF StatusPriority(status_a) = StatusPriority(status_b) THEN status_a
    ELSE IF StatusPriority(status_a) > StatusPriority(status_b) THEN status_a
    ELSE status_b

\* _lower_confidence
LowerConfidenceFlipped(conf_a, conf_b) ==
    IF ConfidencePriority(conf_a) >= ConfidencePriority(conf_b) THEN conf_a
    ELSE conf_b
LowerConfidence(conf_a, conf_b) ==
    IF ConfidencePriority(conf_a) <= ConfidencePriority(conf_b) THEN conf_a
    ELSE conf_b

\* openai_by_id.get(req_id): the last record with that id, 0 for None
Lookup(results, req_id) ==
    IF \E i \in DOMAIN results : results[i].requirement_id = req_id
    THEN CHOOSE i \in DOMAIN results :
            /\ results[i].requirement_id = req_id
            /\ \A j \in DOMAIN results :
                  results[j].requirement_id = req_id => j <= i
    ELSE 0

\* _combine_results: the entry built when only one side has a record
OneSidedAlwaysUnknown(record, provider) ==
    [requirement_id |-> record.requirement_id,
     status |-> record.status,
     confidence |-> record.confidence,
     content |-> record.content,
     tokens_used |-> record.tokens_used,
     agreement_status |-> "unknown",
     source_provider |-> provider,
     status_claude |-> IF provider = "claude" THEN record.status ELSE "None",
     status_openai |-> IF provider = "openai" THEN record.status ELSE "None",
     fallback_claude |-> provider = "claude" /\ record.fallback_provider = "gemini",
     fallback_openai |-> provider = "openai" /\ record.fallback_provider = "gemini"]
OneSided(record, provider) ==
    [requirement_id |-> record.requirement_id,
     status |-> record.status,
     confidence |-> record.confidence,
     content |-> record.content,
     tokens_used |-> record.tokens_used,
     agreement_status |-> IF record.status = "ERROR" THEN "unknown"
                          ELSE "single_provider",
     source_provider |-> provider,
     status_claude |-> IF provider = "claude" THEN record.status ELSE "None",
     status_openai |-> IF provider = "openai" THEN record.status ELSE "None",
     fallback_claude |-> provider = "claude" /\ record.fallback_provider = "gemini",
     fallback_openai |-> provider = "openai" /\ record.fallback_provider = "gemini"]

\* _combine_results: agreement_map[req_id] when both sides have a record
AgreementOfNeverUnknown(status_a, status_b) ==
    IF status_a = "ERROR" \/ status_b = "ERROR" THEN "single_provider"
    ELSE IF status_a = status_b THEN "agreement" ELSE "conflict"
AgreementOf(status_a, status_b) ==
    IF status_a = "ERROR" /\ status_b = "ERROR" THEN "unknown"
    ELSE IF status_a = "ERROR" \/ status_b = "ERROR" THEN "single_provider"
    ELSE IF status_a = status_b THEN "agreement" ELSE "conflict"

\* _combine_results: the entry built when both sides have a record
TwoSidedPrimaryContent(claude_record, oai_record) ==
    LET status_a == claude_record.status
        status_b == oai_record.status
        claude_is_error == status_a = "ERROR"
        openai_is_error == status_b = "ERROR"
        conservative == MoreConservativeStatus(status_a, status_b)
    IN  [requirement_id |-> claude_record.requirement_id,
         status |-> IF claude_is_error /\ openai_is_error THEN "ERROR"
                    ELSE IF claude_is_error THEN status_b
                    ELSE IF openai_is_error THEN status_a
                    ELSE conservative,
         confidence |-> IF claude_is_error /\ openai_is_error THEN "low"
                        ELSE IF claude_is_error THEN oai_record.confidence
                        ELSE IF openai_is_error THEN claude_record.confidence
                        ELSE LowerConfidence(claude_record.confidence,
                                             oai_record.confidence),
         content |-> claude_record.content,
         tokens_used |-> claude_record.tokens_used + oai_record.tokens_used,
         agreement_status |-> AgreementOf(status_a, status_b),
         source_provider |-> IF claude_is_error /\ openai_is_error THEN "claude"
                             ELSE IF claude_is_error THEN "openai"
                             ELSE IF openai_is_error THEN "claude"
                             ELSE IF conservative = status_a THEN "claude"
                             ELSE "openai",
         status_claude |-> status_a,
         status_openai |-> status_b,
         fallback_claude |-> claude_record.fallback_provider = "gemini",
         fallback_openai |-> oai_record.fallback_provider = "gemini"]
TwoSided(claude_record, oai_record) ==
    LET status_a == claude_record.status
        status_b == oai_record.status
        claude_is_error == status_a = "ERROR"
        openai_is_error == status_b = "ERROR"
        both_ok == ~claude_is_error /\ ~openai_is_error
        agreement == status_a = status_b
        conservative == MoreConservativeStatus(status_a, status_b)
        chosen_status ==
            IF claude_is_error /\ openai_is_error THEN "ERROR"
            ELSE IF claude_is_error THEN status_b
            ELSE IF openai_is_error THEN status_a
            ELSE conservative
        chosen_provider ==
            IF claude_is_error /\ openai_is_error THEN "claude"
            ELSE IF claude_is_error THEN "openai"
            ELSE IF openai_is_error THEN "claude"
            ELSE IF conservative = status_a THEN "claude" ELSE "openai"
        chosen_confidence ==
            IF claude_is_error /\ openai_is_error THEN "low"
            ELSE IF claude_is_error THEN oai_record.confidence
            ELSE IF openai_is_error THEN claude_record.confidence
            ELSE LowerConfidence(claude_record.confidence, oai_record.confidence)
        chosen_record ==
            IF both_ok /\ agreement THEN claude_record
            ELSE IF chosen_provider = "claude" THEN claude_record
            ELSE oai_record
    IN  [requirement_id |-> claude_record.requirement_id,
         status |-> chosen_status,
         confidence |-> chosen_confidence,
         content |-> chosen_record.content,
         tokens_used |-> claude_record.tokens_used + oai_record.tokens_used,
         agreement_status |-> AgreementOf(status_a, status_b),
         source_provider |-> chosen_provider,
         status_claude |-> status_a,
         status_openai |-> status_b,
         fallback_claude |-> claude_record.fallback_provider = "gemini",
         fallback_openai |-> oai_record.fallback_provider = "gemini"]

\* _combine_results: the first loop, over the claude records in order
RECURSIVE CombineClaude(_, _)
CombineClaude(claude_results, openai_results) ==
    IF claude_results = <<>> THEN <<>>
    ELSE LET claude_record == Head(claude_results)
             k == Lookup(openai_results, claude_record.requirement_id)
         IN  <<IF k = 0 THEN OneSided(claude_record, "claude")
                        ELSE TwoSided(claude_record, openai_results[k])>>
             \o CombineClaude(Tail(claude_results), openai_results)

\* _combine_results: the second loop, over the openai records whose id no
\* claude record has
RECURSIVE CombineOpenaiOnly(_, _)
CombineOpenaiOnly(claude_results, openai_results) ==
    IF openai_results = <<>> THEN <<>>
    ELSE LET oai_record == Head(openai_results)
         IN  (IF Lookup(claude_results, oai_record.requirement_id) # 0
              THEN <<>>
              ELSE <<OneSided(oai_record, "openai")>>)
             \o CombineOpenaiOnly(claude_results, Tail(openai_results))

RECURSIVE SumTokensUsed(_)
SumTokensUsed(results) ==
    IF results = <<>> THEN 0
    ELSE Head(results).tokens_used + SumTokensUsed(Tail(results))

\* DualVisionComparator._combine_results
CombineResults(claude_results, openai_results) ==
    LET results == CombineClaude(claude_results, openai_results)
                   \o CombineOpenaiOnly(claude_results, openai_results)
    IN  [done |-> TRUE,
         results |-> results,
         agreement_map |-> [i \in DOMAIN results |->
                               <<results[i].requirement_id,
                                 results[i].agreement_status>>],
         total_tokens |-> SumTokensUsed(results)]

\* the requirements_results a single-provider evaluation can hand over: one
\* verdict per requirement, in requirement order, or none at all when the
\* whole evaluation failed (_empty_summary)
VerdictsOf(side, req_id) ==
    {[requirement_id |-> req_id, status |-> st, confidence |-> cf,
      content |-> side, tokens_used |-> 1, fallback_provider |-> "none"] :
        st \in Statuses, cf \in Confidences}
ResultLists(side) ==
    {<<>>} \cup
    {r \in [1..NumRequirements -> UNION {VerdictsOf(side, q) :
                                           q \in 1..NumRequirements}] :
        \A q \in 1..NumRequirements : r[q].requirement_id = q}

(***************************************************************************)
(* The evaluation summary: status histogram and compliance score. The      *)
(* score is kept in tenths, as round(compliance_score, 1) leaves it.       *)
(***************************************************************************)
\* no comparator run is modelled
NoRun == <<>>

NoSummary == [by |-> "none", total |-> 0,
              status_counts |-> [st \in Statuses |-> 0],
              compliance_score |-> 0]

\* status_counts[status] = status_counts.get(status, 0) + 1, over the records
StatusCountsErrorAsNotApplicable(results) ==
    [st \in Statuses |->
        Cardinality({i \in DOMAIN results :
                        (IF results[i].status = "ERROR" THEN "NOT_APPLICABLE"
                         ELSE results[i].status) = st})]
StatusCounts(results) ==
    [st \in Statuses |->
        Cardinality({i \in DOMAIN results : results[i].status = st})]

\* round(num / den * 100, 1) in tenths: the nearest tenth, a tie going to the
\* even one
RoundedScore(num, den) ==
    LET q == (1000 * num) \div den
        r == (1000 * num) % den
    IN  IF 2 * r < den THEN q
        ELSE IF 2 * r > den THEN q + 1
        ELSE IF q % 2 = 0 THEN q ELSE q + 1

\* VisionResponsesEvaluator._generate_summary
GenerateSummary(results) ==
    LET status_counts == StatusCounts(results)
        scored == Len(results) - status_counts["ERROR"]
    IN  [by |-> "single", total |-> Len(results),
         status_counts |-> status_counts,
         compliance_score |-> IF scored # 0
                              THEN RoundedScore(status_counts["PASS"], scored)
                              ELSE 0]

\* DualVisionComparator.evaluate_document: the summary of the merged results
DualSummaryErrorsScored(results) ==
    LET status_counts == StatusCounts(results)
        scored == Len(results)
    IN  [by |-> "dual", total |-> Len(results),
         status_counts |-> status_counts,
         compliance_score |-> IF scored # 0
                              THEN RoundedScore(status_counts["PASS"], scored)
                              ELSE 0]
DualSummary(results) ==
    LET status_counts == StatusCounts(results)
        scored == Len(results) - status_counts["ERROR"]
    IN  [by |-> "dual", total |-> Len(results),
         status_counts |-> status_counts,
         compliance_score |-> IF scored # 0
                              THEN RoundedScore(status_counts["PASS"], scored)
                              ELSE 0]

\* evaluate_document: the two summaries are combined and summarised
Combine ==
    /\ MergeFrame
    /\ ~combined.done
    /\ combined' = CombineResults(claudeResults, openaiResults)
    /\ summary' = DualSummary(CombineResults(claudeResults, openaiResults).results)
    /\ UNCHANGED <<claudeResults, openaiResults>>

\* VisionResponsesEvaluator.evaluate_document: the summary of the provider's
\* own results, before the comparator merges them
Summarise ==
    /\ MergeFrame
    /\ ~combined.done
    /\ summary.by = "none"
    /\ summary' = GenerateSummary(claudeResults)
    /\ UNCHANGED <<claudeResults, openaiResults, combined>>

\* the verdict lists a summary is generated from: up to MaxResults verdicts,
\* the statuses grouped in the order of StatusOrder or in the reverse order
MaxResults == 10
StatusOrder == <<"PASS", "FAIL", "FLAGGED", "PARTIAL", "NOT_APPLICABLE", "ERROR">>
Repeat(x, n) == [i \in 1..n |-> x]
Reverse(seq) == [i \in 1..Len(seq) |-> seq[Len(seq) + 1 - i]]
RECURSIVE GroupedStatusLists(_, _)
GroupedStatusLists(k, n) ==
    IF k > Len(StatusOrder) THEN {<<>>}
    ELSE UNION {{Repeat(StatusOrder[k], c) \o rest :
                    rest \in GroupedStatusLists(k + 1, n - c)} : c \in 0..n}
RecordsOf(side, statuses) ==
    [i \in 1..Len(statuses) |->
        [requirement_id |-> i, status |-> statuses[i], confidence |-> "high",
         content |-> side, tokens_used |-> 1, fallback_provider |-> "none"]]
VerdictLists(side) ==
    UNION {{RecordsOf(side, sts), RecordsOf(side, Reverse(sts))} :
              sts \in GroupedStatusLists(1, MaxResults)}

SummaryNext == Summarise \/ Combine

MergeNext == Combine

(***************************************************************************)
(* VisionResponsesEvaluator._evaluate_single_requirement                   *)
(* One requirement of one single-provider evaluation. The call is          *)
(* recursive: the stack holds, for every invocation in progress, its       *)
(* retry_count and whether the call it is waiting for was made in its try  *)
(* block or in its except block. Its only caller, evaluate_document,       *)
(* passes document_path and a file_ref with a file_hash.                   *)
(***************************************************************************)
Providers == {"openai", "claude", "gemini"}

\* FALLBACK_PROVIDER
FallbackProviderNone(provider) == "None"
FALLBACK_PROVIDER(provider) ==
    CASE provider = "openai" -> "gemini"
      [] provider = "claude" -> "gemini"
      [] provider = "gemini" -> "None"

NoVerdict == [requirement_id |-> 0, status |-> "None", confidence |-> "low",
              content |-> "None", tokens_used |-> 0,
              fallback_provider |-> "none"]

NoEvaluation == [provider |-> "None", stack |-> <<>>, pc |-> "none",
                 log |-> <<>>, result |-> NoVerdict]

\* a verdict for the requirement (its id is 1)
Verdict(status, confidence, content, fallback_provider) ==
    [requirement_id |-> 1, status |-> status, confidence |-> confidence,
     content |-> content, tokens_used |-> 1,
     fallback_provider |-> fallback_provider]

\* _error_result, and the record evaluate_document builds from an exception
ErrorResult(provider) == Verdict("ERROR", "low", provider, "none")

\* what a call of the provider's backend method can do: return a verdict,
\* return an ERROR record (its rationale may name a file access error and
\* may match _is_retryable_error), or raise (str(exc) may match it)
PrimaryOutcomes ==
    {[who |-> "primary", kind |-> "return", status |-> st,
      denied |-> FALSE, retryable |-> FALSE] : st \in Statuses \ {"ERROR"}}
    \cup {[who |-> "primary", kind |-> "error", status |-> "ERROR",
           denied |-> d, retryable |-> r] : d \in BOOLEAN, r \in BOOLEAN}
    \cup {[who |-> "primary", kind |-> "raise", status |-> "None",
           denied |-> FALSE, retryable |-> r] : r \in BOOLEAN}

\* what invalidate_provider_ref and ensure_file_ref can do
RefreshOutcomes ==
    {[who |-> "refresh", kind |-> "return", status |-> "None",
      denied |-> FALSE, retryable |-> FALSE]}
    \cup {[who |-> "refresh", kind |-> "raise", status |-> "None",
           denied |-> FALSE, retryable |-> r] : r \in BOOLEAN}

\* what _evaluate_with_fallback can do: return the fallback's record, an
\* ERROR record included, or raise (the evaluator's construction, the upload
\* of the file or the writing of the response can fail)
FallbackOutcomes ==
    {[who |-> "fallback", kind |-> "return", status |-> st,
      denied |-> FALSE, retryable |-> FALSE] : st \in Statuses}
    \cup {[who |-> "fallback", kind |-> "raise", status |-> "None",
           denied |-> FALSE, retryable |-> r] : r \in BOOLEAN}

\* the call returns: every caller up the stack is a "return await"
Finish(ev, verdict) ==
    [ev EXCEPT !.pc = "done", !.stack = <<>>, !.result = verdict]

\* the invocation on top of the stack calls itself with retry_count + 1 from
\* its try block or its except block
Recur(ev, site) ==
    LET n == Len(ev.stack)
    IN  [ev EXCEPT !.pc = "primary",
                   !.stack = Append([ev.stack EXCEPT ![n].site = site],
                                    [retry_count |-> ev.stack[n].retry_count + 1,
                                     site |-> "try"])]

\* an exception reaches the invocation on top of the stack: raised under its
\* try block it runs the except block (lines 907-941); raised under the except
\* block it leaves the invocation
RECURSIVE Raise(_, _)
Raise(ev, retryable) ==
    IF ev.stack = <<>> THEN [ev EXCEPT !.pc = "raised"]
    ELSE LET n == Len(ev.stack)
             top == ev.stack[n]
         IN  IF top.site = "handler"
             THEN Raise([ev EXCEPT !.stack = SubSeq(ev.stack, 1, n - 1)],
                        retryable)
             ELSE IF ~retryable THEN Finish(ev, ErrorResult(ev.provider))
             ELSE IF top.retry_count < 1 THEN Recur(ev, "handler")
             ELSE IF FALLBACK_PROVIDER(ev.provider) # "None"
             THEN [ev EXCEPT !.pc = "fallback", !.stack[n].site = "handler"]
             ELSE Finish(ev, ErrorResult(ev.provider))

\* the try block after the backend method returned an ERROR record
\* (lines 849-905)
AfterErrorRecordRetryAll(ev, outcome, refresh) ==
    LET n == Len(ev.stack)
        top == ev.stack[n]
    IN  IF top.retry_count < 1 THEN Recur(ev, "try")
        ELSE Finish(ev, ErrorResult(ev.provider))
AfterErrorRecord(ev, outcome, refresh) ==
    LET n == Len(ev.stack)
        top == ev.stack[n]
    IN  IF outcome.denied /\ top.retry_count < 1
        THEN IF refresh.kind = "raise"
             THEN Raise([ev EXCEPT !.log = Append(ev.log, refresh)],
                        refresh.retryable)
             ELSE Recur(ev, "try")
        ELSE IF ~outcome.retryable THEN Finish(ev, ErrorResult(ev.provider))
        ELSE IF top.retry_count < 1 THEN Recur(ev, "try")
        ELSE IF FALLBACK_PROVIDER(ev.provider) # "None"
        THEN [ev EXCEPT !.pc = "fallback", !.stack[n].site = "try"]
        ELSE Finish(ev, ErrorResult(ev.provider))

EvaluatorFrame == UNCHANGED <<queueVars, limiterVars, runVars, constructVars,
          fanoutVars>>

\* _evaluate_single_requirement: the provider's backend method is called and
\* the invocation runs on to its next backend call or to its end
PrimaryCall(outcome, refresh) ==
    /\ EvaluatorFrame
    /\ evaluator.pc = "primary"
    /\ LET ev == [evaluator EXCEPT !.log = Append(evaluator.log, outcome)]
       IN  evaluator' =
              CASE outcome.kind = "return" ->
                      Finish(ev, Verdict(outcome.status, "high",
                                         ev.provider, "none"))
                [] outcome.kind = "error" ->
                      AfterErrorRecord(ev, outcome, refresh)
                [] outcome.kind = "raise" ->
                      Raise(ev, outcome.retryable)
    /\ UNCHANGED <<mergeVars, summary>>

\* _evaluate_with_fallback is called for the requirement
FallbackCall(outcome) ==
    /\ EvaluatorFrame
    /\ evaluator.pc = "fallback"
    /\ LET ev == [evaluator EXCEPT !.log = Append(evaluator.log, outcome)]
       IN  evaluator' =
              IF outcome.kind = "return"
              THEN Finish(ev, Verdict(outcome.status,
                                      IF outcome.status = "ERROR" THEN "low"
                                      ELSE "high",
                                      FALLBACK_PROVIDER(ev.provider),
                                      FALLBACK_PROVIDER(ev.provider)))
              ELSE Raise(ev, outcome.retryable)
    /\ UNCHANGED <<mergeVars, summary>>

\* the comparator's side that the evaluator of a provider is not
OtherSide(provider) == IF provider = "claude" THEN "openai" ELSE "claude"

\* what the other side can hand over for the requirement: its record, or
\* nothing when its whole evaluation failed
OtherResults(side) == {<<>>} \cup {<<v>> : v \in VerdictsOf(side, 1)}

\* evaluate_document of the evaluator (gather with return_exceptions: an
\* exception becomes an ERROR record) and of the comparator, whose primary is
\* the claude evaluator and whose secondary is the openai evaluator: the
\* requirement's record is one side's result, the other side hands over any
\* result list
Gather(other) ==
    /\ EvaluatorFrame
    /\ evaluator.pc \in {"done", "raised"}
    /\ evaluator.provider \in {"claude", "openai"}
    /\ LET mine == <<IF evaluator.pc = "raised"
                     THEN ErrorResult(evaluator.provider)
                     ELSE evaluator.result>>
       IN  /\ claudeResults' =
                 IF evaluator.provider = "claude" THEN mine ELSE other
           /\ openaiResults' =
                 IF evaluator.provider = "openai" THEN mine ELSE other
    /\ evaluator' = [evaluator EXCEPT !.pc = "gathered"]
    /\ UNCHANGED <<combined, summary>>

\* the comparator combines the two result lists
CombineGathered ==
    /\ evaluator.pc = "gathered"
    /\ Combine

EvaluatorNext ==
    \/ \E o \in PrimaryOutcomes, r \in RefreshOutcomes : PrimaryCall(o, r)
    \/ \E o \in FallbackOutcomes : FallbackCall(o)
    \/ \E other \in OtherResults(OtherSide(evaluator.provider)) : Gather(other)
    \/ CombineGathered

(***************************************************************************)
(* One run of the comparator: the evaluate_document of the primary (claude) *)
(* and of the secondary (openai) evaluator run in parallel, each over the  *)
(* same BatchSize requirements with ids 1..BatchSize in their order, then  *)
(* the two summaries are combined.                                         *)
(***************************************************************************)
BatchSize == 2
Sides == {"claude", "openai"}

RunFrame == UNCHANGED <<queueVars, limiterVars, evalVars, constructVars,
          fanoutVars>>

\* a requirement's task that has not ended
Pending == [state |-> "pending", verdict |-> NoVerdict]

\* how the task of requirement i ends: _evaluate_single_requirement returns a
\* record (an ERROR record included) or lets an exception escape
TaskVerdicts(side, i) ==
    {[requirement_id |-> i, status |-> st,
      confidence |-> IF st = "ERROR" THEN "low" ELSE "high",
      content |-> side, tokens_used |-> 1, fallback_provider |-> "none"] :
        st \in {"PASS", "FAIL", "ERROR"}}
TaskOutcomes(side, i) ==
    {[state |-> "returned", verdict |-> v] : v \in TaskVerdicts(side, i)}
    \cup {[state |-> "raised", verdict |-> NoVerdict]}

\* the record evaluate_document builds for a task that raised
ExceptionRecord(side, i) ==
    [requirement_id |-> i, status |-> "ERROR", confidence |-> "low",
     content |-> side, tokens_used |-> 0, fallback_provider |-> "none"]

\* the results list built from the gathered tasks, in the order of the
\* requirements
GatherResultsDropRaised(side, evaluations) ==
    LET kept == SelectSeq(evaluations, LAMBDA t : t.state # "raised")
    IN  [i \in DOMAIN kept |-> kept[i].verdict]
GatherResults(side, evaluations) ==
    [i \in DOMAIN evaluations |->
        IF evaluations[i].state = "raised" THEN ExceptionRecord(side, i)
        ELSE evaluations[i].verdict]

\* evaluate_document of a side's evaluator up to the creation of its tasks:
\* the path checks, the upload (ensure_file_ref) or the loading of the
\* requirements can raise, and the comparator then takes _empty_summary
BeginEvaluation(side, ok) ==
    /\ RunFrame
    /\ run # NoRun
    /\ run[side].pc = "start"
    /\ run' = [run EXCEPT ![side] =
                  IF ok
                  THEN [pc |-> "running", tasks |-> [i \in 1..BatchSize |-> Pending]]
                  ELSE [pc |-> "failed", tasks |-> <<>>]]
    /\ UNCHANGED <<mergeVars, summary>>

\* the task of requirement i ends; the tasks run concurrently
TaskEnds(side, i, outcome) ==
    /\ RunFrame
    /\ run # NoRun
    /\ run[side].pc = "running"
    /\ i \in DOMAIN run[side].tasks
    /\ run[side].tasks[i].state = "pending"
    /\ run' = [run EXCEPT ![side].tasks[i] = outcome]
    /\ UNCHANGED <<mergeVars, summary>>

\* evaluate_document after the gather: the results list, the summary and its
\* persisting, which can raise; the comparator keeps the summary's
\* requirements_results, or _empty_summary's empty list
ReturnSummary(side, persisted) ==
    /\ RunFrame
    /\ run # NoRun
    /\ run[side].pc = "running"
    /\ \A i \in DOMAIN run[side].tasks : run[side].tasks[i].state # "pending"
    /\ LET results == GatherResults(side, run[side].tasks)
       IN  IF persisted
           THEN /\ run' = [run EXCEPT ![side].pc = "returned"]
                /\ claudeResults' = IF side = "claude" THEN results
                                    ELSE claudeResults
                /\ openaiResults' = IF side = "openai" THEN results
                                    ELSE openaiResults
                /\ summary' = GenerateSummary(results)
           ELSE /\ run' = [run EXCEPT ![side].pc = "failed"]
                /\ UNCHANGED <<claudeResults, openaiResults, summary>>
    /\ UNCHANGED combined

\* the comparator's evaluate_document after both sides have ended
CombineRun ==
    /\ run # NoRun
    /\ \A side \in Sides : run[side].pc \in {"returned", "failed"}
    /\ Combine

RunNext ==
    \/ \E side \in Sides, ok \in BOOLEAN : BeginEvaluation(side, ok)
    \/ \E side \in Sides, i \in 1..BatchSize :
          \E o \in TaskOutcomes(side, i) : TaskEnds(side, i, o)
    \/ \E side \in Sides, persisted \in BOOLEAN : ReturnSummary(side, persisted)
    \/ CombineRun

(***************************************************************************)
(* Construction of the evaluators: VisionResponsesEvaluator.__init__ and   *)
(* DualVisionComparator.__init__. A provider name is a sequence of         *)
(* characters, so that strip() and lower() are computed; the numeric       *)
(* settings read after the provider check are taken as well-formed.        *)
(***************************************************************************)
OPENAI == <<"o", "p", "e", "n", "a", "i">>
GEMINI == <<"g", "e", "m", "i", "n", "i">>
CLAUDE == <<"c", "l", "a", "u", "d", "e">>
DUAL == <<"d", "u", "a", "l">>

\* the set the constructor checks self.provider against
SupportedProviders == {OPENAI, GEMINI, CLAUDE}

\* an Optional[str]: given = FALSE is None
NoName == [given |-> FALSE, name |-> <<>>]
Given(name) == [given |-> TRUE, name |-> name]

\* the truth value of an Optional[str] in "a or b"
Truthy(opt) == opt.given /\ opt.name # <<>>

\* str.lower(), on the letters the names below use
LowerChar(ch) ==
    CASE ch = "A" -> "a"
      [] ch = "C" -> "c"
      [] ch = "I" -> "i"
      [] ch = "O" -> "o"
      [] OTHER -> ch
Lower(name) == [i \in DOMAIN name |-> LowerChar(name[i])]

\* str.strip()
Whitespace == {" "}
RECURSIVE StripLeft(_)
StripLeft(name) ==
    IF name # <<>> /\ Head(name) \in Whitespace THEN StripLeft(Tail(name))
    ELSE name
RECURSIVE StripRight(_)
StripRight(name) ==
    IF name # <<>> /\ name[Len(name)] \in Whitespace
    THEN StripRight(SubSeq(name, 1, Len(name) - 1))
    ELSE name
Strip(name) == StripRight(StripLeft(name))

\* (provider or os.getenv("VISION_PROVIDER") or "openai").strip().lower()
ResolveProvider(provider, env) ==
    Lower(Strip(IF Truthy(provider) THEN provider.name
                ELSE IF Truthy(env.VISION_PROVIDER) THEN env.VISION_PROVIDER.name
                ELSE OPENAI))

\* the outcomes of a constructor call
NoObject == [provider |-> <<>>, primary |-> <<>>, secondary |-> <<>>]
Unsupported == "Unsupported VISION_PROVIDER"
Raises(message) == [ok |-> FALSE, object |-> NoObject, error |-> message]
Evaluator(name) ==
    [ok |-> TRUE, object |-> [NoObject EXCEPT !.provider = name], error |-> ""]

\* the provider's own branch of the constructor: its SDK and its API key
ProviderBranch(name, env) ==
    IF name = GEMINI
    THEN IF ~env.GENAI_AVAILABLE THEN Raises("google-genai is required")
         ELSE IF ~env.GEMINI_API_KEY THEN Raises("GEMINI_API_KEY is required")
         ELSE Evaluator(name)
    ELSE IF name = CLAUDE
    THEN IF ~env.ANTHROPIC_AVAILABLE THEN Raises("anthropic SDK is required")
         ELSE IF ~env.ANTHROPIC_API_KEY
         THEN Raises("ANTHROPIC_API_KEY is required")
         ELSE Evaluator(name)
    ELSE IF ~env.OPENAI_API_KEY THEN Raises("OPENAI_API_KEY is required")
         ELSE Evaluator(name)

\* VisionResponsesEvaluator(provider=...)
NewEvaluatorUnvalidated(provider, env) ==
    ProviderBranch(ResolveProvider(provider, env), env)
NewEvaluator(provider, env) ==
    IF ResolveProvider(provider, env) \notin SupportedProviders
    THEN Raises(Unsupported)
    ELSE ProviderBranch(ResolveProvider(provider, env), env)

\* DualVisionComparator()
NewComparator(env) ==
    LET primary == NewEvaluator(Given(CLAUDE), env)
        secondary == NewEvaluator(Given(OPENAI), env)
    IN  IF ~primary.ok THEN primary
        ELSE IF ~secondary.ok THEN secondary
        ELSE [ok |-> TRUE,
              object |-> [provider |-> DUAL,
                          primary |-> primary.object.provider,
                          secondary |-> secondary.object.provider],
              error |-> ""]

\* no construction is modelled
NoConstruct == [pc |-> "none"]

\* the provider arguments and the environments a construction is run with
ProviderArgs ==
    {NoName} \cup
    {Given(name) : name \in {<<>>, <<" ">>, OPENAI, GEMINI, CLAUDE, DUAL,
                             <<"x">>, <<"C", "l", "a", "u", "d", "e">>,
                             <<" ", "O", "P", "E", "N", "A", "I", " ">>}}
Environments ==
    [VISION_PROVIDER : {NoName, Given(GEMINI), Given(DUAL)},
     OPENAI_API_KEY : BOOLEAN, GEMINI_API_KEY : BOOLEAN,
     ANTHROPIC_API_KEY : BOOLEAN, GENAI_AVAILABLE : BOOLEAN,
     ANTHROPIC_AVAILABLE : BOOLEAN]

ConstructFrame ==
    UNCHANGED <<queueVars, limiterVars, mergeVars, evalVars, summaryVars,
                runVars, fanoutVars>>

Constructed(kind, outcome) ==
    [construct EXCEPT !.pc = IF outcome.ok THEN "built" ELSE "raised",
                      !.kind = kind,
                      !.object = outcome.object,
                      !.error = outcome.error]

\* a caller constructs a single-provider evaluator
ConstructEvaluator ==
    /\ construct.pc = "start"
    /\ construct' = Constructed("single",
                                NewEvaluator(construct.provider, construct.env))
    /\ ConstructFrame

\* a caller constructs the comparator
ConstructComparator ==
    /\ construct.pc = "start"
    /\ construct' = Constructed("dual", NewComparator(construct.env))
    /\ ConstructFrame

ConstructNext ==
    \/ ConstructEvaluator
    \/ ConstructComparator

(***************************************************************************)
(* The history of finished items on its own: items end one after the      *)
(* other, each put into self._completed by the finally block of            *)
(* _process_item. How an item got to its end plays no part in the history, *)
(* so every item here ends by the return of its callback.                  *)
(***************************************************************************)
MaxCompletions == 52
MaxSame == 2

\* the evaluation ids of the items created so far, and how many items an id has
IdsSeen == {items[k].evaluation_id : k \in DOMAIN items}
ItemsOf(eid) == {k \in DOMAIN items : items[k].evaluation_id = eid}

\* the item with the given id, at the end of _process_item's try block
FinishedItem(eid, seqno) ==
    [NewItem(eid, seqno) EXCEPT !.status = TerminalStatus("returned"),
                                !.error_message = TerminalMessage("returned"),
                                !.started_at = 1,
                                !.completed_at = 1]

HistoryFrame ==
    UNCHANGED <<pending, processing, tasks, wpc, workerTask, shutdown, stopCall,
                limiterVars, mergeVars, evalVars, summaryVars, runVars,
                constructVars,
          fanoutVars>>

\* an item of the given evaluation id ends
HistoryComplete(eid) ==
    /\ Len(items) < MaxCompletions
    /\ Cardinality(ItemsOf(eid)) < MaxSame
    /\ items' = Append(items, FinishedItem(eid, Len(items) + 1))
    /\ completed' = HistoryPut(completed, eid, Len(items) + 1)
    /\ HistoryFrame

\* an item of an evaluation id never seen before ends
CompleteNew ==
    /\ Cardinality(IdsSeen) + 1 \notin IdsSeen
    /\ HistoryComplete(Cardinality(IdsSeen) + 1)

\* the evaluation id of the oldest entry of the history was enqueued again,
\* and its new item ends
CompleteAgain ==
    /\ completed # <<>>
    /\ HistoryComplete(completed[1][1])

HistoryNext ==
    \/ CompleteNew
    \/ CompleteAgain

(***************************************************************************)
(* The fan-out of evaluate_document                                        *)
(* One task per requirement runs _evaluate_single_requirement; all of them *)
(* share the semaphore that evaluate_document creates. A semaphore is      *)
(* <<value>>, and <<>> where none has been created.                        *)
(***************************************************************************)
\* Bounds of the model: the requirements of the checklist, the limits 4
\* (claude) and 8 (openai, gemini) of PROVIDER_CONCURRENCY scaled down in
\* their order, and the largest VISION_EVALUATOR_CONCURRENCY configured
NumTasks == 3
ClaudeConcurrency == 1
OtherConcurrency == 2
MaxConfigured == 2

FanoutTasks == 1..NumTasks

PROVIDER_CONCURRENCY(provider) ==
    IF provider = "claude" THEN ClaudeConcurrency ELSE OtherConcurrency

\* self.concurrent_requests as __init__ leaves it
ConcurrentRequests(provider, configured) ==
    IF provider = "claude" /\ PROVIDER_CONCURRENCY("claude") < configured
    THEN PROVIDER_CONCURRENCY("claude")
    ELSE configured

NoFanout == [provider |-> "none", concurrent_requests |-> 0,
             semaphore |-> <<>>, tasks |-> <<>>]

FanoutFrame ==
    UNCHANGED <<queueVars, limiterVars, mergeVars, evalVars, summaryVars,
                runVars, constructVars>>

\* evaluate_document: the semaphore and one task per requirement
EvaluateDocumentFanout ==
    /\ FanoutFrame
    /\ fanout.semaphore = <<>>
    /\ fanout' = [fanout EXCEPT
                     !.semaphore = <<fanout.concurrent_requests>>,
                     !.tasks = [t \in FanoutTasks |->
                                  [pc |-> "waitSemaphore", retry_count |-> 0,
                                   fallback_semaphore |-> <<>>]]]

\* "async with semaphore" of _evaluate_single_requirement_<provider>: the
\* task takes a slot and its call to the backend is in flight
EnterSemaphore(t) ==
    /\ FanoutFrame
    /\ fanout.semaphore # <<>>
    /\ fanout.tasks[t].pc = "waitSemaphore"
    /\ fanout.semaphore[1] > 0
    /\ fanout' = [fanout EXCEPT !.semaphore = <<fanout.semaphore[1] - 1>>,
                                !.tasks[t].pc = "call"]

\* where _evaluate_single_requirement goes after the call ended with the
\* given outcome
AfterCall(provider, retry_count, outcome) ==
    IF outcome # "retryable" THEN "done"
    ELSE IF retry_count < 1 THEN "backoff"
    ELSE IF FALLBACK_PROVIDER(provider) # "None" THEN "fallback"
    ELSE "done"

\* the call to the backend ends (a result, or an exception that leaves the
\* "async with" block): the slot is released, then the retry policy applies
CallReturns(t, outcome) ==
    /\ FanoutFrame
    /\ fanout.semaphore # <<>>
    /\ fanout.tasks[t].pc = "call"
    /\ fanout' = [fanout EXCEPT
                     !.semaphore = <<fanout.semaphore[1] + 1>>,
                     !.tasks[t].pc = AfterCall(fanout.provider,
                                               fanout.tasks[t].retry_count,
                                               outcome)]

\* "await asyncio.sleep(delay)" is over: the task calls
\* _evaluate_single_requirement again with retry_count + 1
BackoffEnds(t) ==
    /\ FanoutFrame
    /\ fanout.semaphore # <<>>
    /\ fanout.tasks[t].pc = "backoff"
    /\ fanout' = [fanout EXCEPT
                     !.tasks[t].pc = "waitSemaphore",
                     !.tasks[t].retry_count = @ + 1]

\* _evaluate_with_fallback: a new semaphore for this one call, which the
\* fallback evaluator's _evaluate_single_requirement_<fallback> enters
FallbackEnter(t) ==
    /\ FanoutFrame
    /\ fanout.semaphore # <<>>
    /\ fanout.tasks[t].pc = "fallback"
    /\ fanout' = [fanout EXCEPT
                     !.tasks[t].pc = "fallbackCall",
                     !.tasks[t].fallback_semaphore =
                        <<PROVIDER_CONCURRENCY(
                             FALLBACK_PROVIDER(fanout.provider)) - 1>>]

\* the fallback backend's call ends
FallbackReturns(t) ==
    /\ FanoutFrame
    /\ fanout.semaphore # <<>>
    /\ fanout.tasks[t].pc = "fallbackCall"
    /\ fanout' = [fanout EXCEPT
                     !.tasks[t].pc = "done",
                     !.tasks[t].fallback_semaphore =
                        <<fanout.tasks[t].fallback_semaphore[1] + 1>>]

CallOutcomes == {"ok", "permanent", "retryable"}

FanoutNext ==
    \/ EvaluateDocumentFanout
    \/ \E t \in FanoutTasks : EnterSemaphore(t)
    \/ \E t \in FanoutTasks, o \in CallOutcomes : CallReturns(t, o)
    \/ \E t \in FanoutTasks : BackoffEnds(t)
    \/ \E t \in FanoutTasks : FallbackEnter(t)
    \/ \E t \in FanoutTasks : FallbackReturns(t)

(***************************************************************************)
(* Specification of the queue                                              *)
(***************************************************************************)
InitQueue ==
    /\ items = <<>>
    /\ pending = <<>>
    /\ processing = <<>>
    /\ completed = <<>>
    /\ tasks = {}
    /\ wpc = [w \in Workers |-> "none"]
    /\ workerTask = 0
    /\ shutdown = FALSE
    /\ stopCall = NoStop
    /\ now = 0
    /\ usageWindow = <<>>
    /\ lockOwner = 0
    /\ lastRequestTime = 0
    /\ callers = NoCallers
    /\ claudeResults = NoRecords
    /\ openaiResults = NoRecords
    /\ combined = NotRun
    /\ evaluator = NoEvaluation
    /\ summary = NoSummary
    /\ run = NoRun
    /\ construct = NoConstruct
    /\ fanout = NoFanout

SpecQueue == InitQueue /\ [][QueueNext]_vars

(***************************************************************************)
(* Specification of the queue while it runs: stop() is not called. The     *)
(* event loop runs every task that is ready (the worker loop when it is    *)
(* not waiting on the condition), and every awaited callback ends: it      *)
(* returns, raises, or wait_for times it out.                              *)
(***************************************************************************)
RunningNext ==
    \/ \E eid \in CallIds : Enqueue(eid)
    \/ \E eid \in CallIds : Cancel(eid)
    \/ Start
    \/ \E w \in Workers : WorkerStep(w)
    \/ \E id \in 1..MaxItems, outcome \in Outcomes : ProcessItemFinish(id, outcome)

Fairness ==
    /\ \A w \in Workers : WF_vars(WorkerStep(w))
    /\ \A id \in 1..MaxItems :
          WF_vars(\E outcome \in Outcomes : ProcessItemFinish(id, outcome))

SpecQueueRunning == InitQueue /\ [][RunningNext]_vars /\ Fairness

(***************************************************************************)
(* Specification of the history                                            *)
(***************************************************************************)
InitHistory ==
    /\ items = <<>>
    /\ pending = <<>>
    /\ processing = <<>>
    /\ completed = <<>>
    /\ tasks = {}
    /\ wpc = [w \in Workers |-> "none"]
    /\ workerTask = 0
    /\ shutdown = FALSE
    /\ stopCall = NoStop
    /\ now = 0
    /\ usageWindow = <<>>
    /\ lockOwner = 0
    /\ lastRequestTime = 0
    /\ callers = NoCallers
    /\ claudeResults = NoRecords
    /\ openaiResults = NoRecords
    /\ combined = NotRun
    /\ evaluator = NoEvaluation
    /\ summary = NoSummary
    /\ run = NoRun
    /\ construct = NoConstruct
    /\ fanout = NoFanout

SpecHistory == InitHistory /\ [][HistoryNext]_vars

(***************************************************************************)
(* Specifications of the rate limiter: acquire alone, and with             *)
(* record_actual_usage                                                     *)
(***************************************************************************)
InitAcquire ==
    /\ items = <<>>
    /\ pending = <<>>
    /\ processing = <<>>
    /\ completed = <<>>
    /\ tasks = {}
    /\ wpc = [w \in Workers |-> "none"]
    /\ workerTask = 0
    /\ shutdown = FALSE
    /\ stopCall = NoStop
    /\ now \in 0..min_delay_between_requests
    /\ usageWindow = <<>>
    /\ lockOwner = 0
    /\ lastRequestTime = 0
    /\ callers = [c \in Callers |-> Idle]
    /\ claudeResults = NoRecords
    /\ openaiResults = NoRecords
    /\ combined = NotRun
    /\ evaluator = NoEvaluation
    /\ summary = NoSummary
    /\ run = NoRun
    /\ construct = NoConstruct
    /\ fanout = NoFanout

SpecAcquire == InitAcquire /\ [][AcquireNext]_vars

(***************************************************************************)
(* acquire under fair scheduling: time advances, a sleep that is over      *)
(* ends, and a caller that keeps asking for the lock gets it (asyncio.Lock *)
(* wakes its waiters first come, first served). Whether a task calls       *)
(* acquire at all, and when it is done with its grant, is up to the task.  *)
(***************************************************************************)
AcquireForeverNext ==
    \/ \E c \in Callers, e \in 0..MaxTokens : AcquireCall(c, e)
    \/ \E c \in Callers : AcquireLoop(c)
    \/ \E c \in Callers : AcquireAfterDelay(c)
    \/ \E c \in Callers : AcquireAfterWait(c)
    \/ \E c \in Callers : CallerDone(c)
    \/ TickForever

AcquireFairness ==
    /\ WF_vars(TickForever)
    /\ \A c \in Callers :
          /\ SF_vars(AcquireLoop(c))
          /\ WF_vars(AcquireAfterDelay(c))
          /\ WF_vars(AcquireAfterWait(c))

SpecAcquireForever ==
    InitAcquire /\ [][AcquireForeverNext]_vars /\ AcquireFairness

InitLimiter ==
    /\ items = <<>>
    /\ pending = <<>>
    /\ processing = <<>>
    /\ completed = <<>>
    /\ tasks = {}
    /\ wpc = [w \in Workers |-> "none"]
    /\ workerTask = 0
    /\ shutdown = FALSE
    /\ stopCall = NoStop
    /\ now \in 0..min_delay_between_requests
    /\ usageWindow = <<>>
    /\ lockOwner = 0
    /\ lastRequestTime = 0
    /\ callers = [c \in Callers |-> Idle]
    /\ claudeResults = NoRecords
    /\ openaiResults = NoRecords
    /\ combined = NotRun
    /\ evaluator = NoEvaluation
    /\ summary = NoSummary
    /\ run = NoRun
    /\ construct = NoConstruct
    /\ fanout = NoFanout

SpecLimiter == InitLimiter /\ [][LimiterNext]_vars

(***************************************************************************)
(* Specification of the comparator: any pair of provider results           *)
(***************************************************************************)
InitMerge ==
    /\ items = <<>>
    /\ pending = <<>>
    /\ processing = <<>>
    /\ completed = <<>>
    /\ tasks = {}
    /\ wpc = [w \in Workers |-> "none"]
    /\ workerTask = 0
    /\ shutdown = FALSE
    /\ stopCall = NoStop
    /\ now = 0
    /\ usageWindow = <<>>
    /\ lockOwner = 0
    /\ lastRequestTime = 0
    /\ callers = NoCallers
    /\ claudeResults \in ResultLists("claude")
    /\ openaiResults \in ResultLists("openai")
    /\ combined = NotRun
    /\ evaluator = NoEvaluation
    /\ summary = NoSummary
    /\ run = NoRun
    /\ construct = NoConstruct
    /\ fanout = NoFanout

SpecMerge == InitMerge /\ [][MergeNext]_vars

(***************************************************************************)
(* Specification of the summaries: a provider's own summary of its verdict *)
(* list, then the comparator's summary of the merged list. The secondary   *)
(* either has no results or agrees with the primary on every requirement.  *)
(***************************************************************************)
InitSummary ==
    /\ items = <<>>
    /\ pending = <<>>
    /\ processing = <<>>
    /\ completed = <<>>
    /\ tasks = {}
    /\ wpc = [w \in Workers |-> "none"]
    /\ workerTask = 0
    /\ shutdown = FALSE
    /\ stopCall = NoStop
    /\ now = 0
    /\ usageWindow = <<>>
    /\ lockOwner = 0
    /\ lastRequestTime = 0
    /\ callers = NoCallers
    /\ claudeResults \in VerdictLists("claude")
    /\ openaiResults \in {<<>>, [i \in DOMAIN claudeResults |->
                                    [claudeResults[i] EXCEPT !.content = "openai"]]}
    /\ combined = NotRun
    /\ evaluator = NoEvaluation
    /\ summary = NoSummary
    /\ run = NoRun
    /\ construct = NoConstruct
    /\ fanout = NoFanout

SpecSummary == InitSummary /\ [][SummaryNext]_vars

(***************************************************************************)
(* Specification of a run of the comparator                                *)
(***************************************************************************)
InitRun ==
    /\ items = <<>>
    /\ pending = <<>>
    /\ processing = <<>>
    /\ completed = <<>>
    /\ tasks = {}
    /\ wpc = [w \in Workers |-> "none"]
    /\ workerTask = 0
    /\ shutdown = FALSE
    /\ stopCall = NoStop
    /\ now = 0
    /\ usageWindow = <<>>
    /\ lockOwner = 0
    /\ lastRequestTime = 0
    /\ callers = NoCallers
    /\ claudeResults = NoRecords
    /\ openaiResults = NoRecords
    /\ combined = NotRun
    /\ evaluator = NoEvaluation
    /\ summary = NoSummary
    /\ run = [side \in Sides |-> [pc |-> "start", tasks |-> <<>>]]
    /\ construct = NoConstruct
    /\ fanout = NoFanout

SpecRun == InitRun /\ [][RunNext]_vars

(***************************************************************************)
(* Specification of one requirement's evaluation by a single-provider      *)
(* evaluator, followed by the comparator's merge                           *)
(***************************************************************************)
InitEvaluator ==
    /\ items = <<>>
    /\ pending = <<>>
    /\ processing = <<>>
    /\ completed = <<>>
    /\ tasks = {}
    /\ wpc = [w \in Workers |-> "none"]
    /\ workerTask = 0
    /\ shutdown = FALSE
    /\ stopCall = NoStop
    /\ now = 0
    /\ usageWindow = <<>>
    /\ lockOwner = 0
    /\ lastRequestTime = 0
    /\ callers = NoCallers
    /\ claudeResults = NoRecords
    /\ openaiResults = NoRecords
    /\ combined = NotRun
    /\ evaluator \in {[provider |-> p,
                       stack |-> <<[retry_count |-> 0, site |-> "try"]>>,
                       pc |-> "primary", log |-> <<>>, result |-> NoVerdict] :
                         p \in Providers}
    /\ summary = NoSummary
    /\ run = NoRun
    /\ construct = NoConstruct
    /\ fanout = NoFanout

SpecEvaluator == InitEvaluator /\ [][EvaluatorNext]_vars

(***************************************************************************)
(* Specification of the constructors: one construction, of a single        *)
(* evaluator or of the comparator, for every provider argument and         *)
(* environment.                                                            *)
(***************************************************************************)
InitConstruct ==
    /\ items = <<>>
    /\ pending = <<>>
    /\ processing = <<>>
    /\ completed = <<>>
    /\ tasks = {}
    /\ wpc = [w \in Workers |-> "none"]
    /\ workerTask = 0
    /\ shutdown = FALSE
    /\ stopCall = NoStop
    /\ now = 0
    /\ usageWindow = <<>>
    /\ lockOwner = 0
    /\ lastRequestTime = 0
    /\ callers = NoCallers
    /\ claudeResults = NoRecords
    /\ openaiResults = NoRecords
    /\ combined = NotRun
    /\ evaluator = NoEvaluation
    /\ summary = NoSummary
    /\ run = NoRun
    /\ construct \in {[provider |-> p, env |-> e, pc |-> "start",
                       kind |-> "none", object |-> NoObject, error |-> ""] :
                         p \in ProviderArgs, e \in Environments}
    /\ fanout = NoFanout

SpecConstruct == InitConstruct /\ [][ConstructNext]_vars

(***************************************************************************)
(* Specification of the fan-out: one evaluate_document of an evaluator of  *)
(* any provider and configured concurrency.                                *)
(***************************************************************************)
InitFanout ==
    /\ items = <<>>
    /\ pending = <<>>
    /\ processing = <<>>
    /\ completed = <<>>
    /\ tasks = {}
    /\ wpc = [w \in Workers |-> "none"]
    /\ workerTask = 0
    /\ shutdown = FALSE
    /\ stopCall = NoStop
    /\ now = 0
    /\ usageWindow = <<>>
    /\ lockOwner = 0
    /\ lastRequestTime = 0
    /\ callers = NoCallers
    /\ claudeResults = NoRecords
    /\ openaiResults = NoRecords
    /\ combined = NotRun
    /\ evaluator = NoEvaluation
    /\ summary = NoSummary
    /\ run = NoRun
    /\ construct = NoConstruct
    /\ fanout \in {[NoFanout EXCEPT
                       !.provider = p,
                       !.concurrent_requests = ConcurrentRequests(p, n)] :
                         p \in Providers, n \in 1..MaxConfigured}

SpecFanout == InitFanout /\ [][FanoutNext]_vars

(***************************************************************************)
(* Properties of the queue                                                 *)
(***************************************************************************)
PendingIds == {items[pending[i]].evaluation_id : i \in DOMAIN pending}
IsQueued(eid) == eid \in PendingIds
LiveWorkers == {w \in Workers : wpc[w] \in {"loop", "wait"}}

\* C1: admission is FIFO: the Queued list is in order of enqueueing, and no
\* item has become Processing while an item enqueued before it is still
\* Queued (every item that was started was enqueued before every Queued one).
C1_FifoAdmission ==
    /\ \A i, j \in DOMAIN pending :
          i < j => items[pending[i]].created_at < items[pending[j]].created_at
    /\ \A k \in DOMAIN items :
          items[k].started_at = 1 =>
             \A i \in DOMAIN pending :
                items[k].created_at < items[pending[i]].created_at

\* two items were admitted while a third one waits behind them
C1_Witness ==
    /\ Cardinality({k \in DOMAIN items : items[k].started_at = 1}) >= 2
    /\ Len(pending) >= 1

\* C2: at most max_concurrent items are in the Processing set, and at most
\* that many evaluations are in flight, in every reachable state.
C2_AtMostK ==
    /\ Cardinality(DOMAIN processing) <= max_concurrent
    /\ Cardinality(tasks) <= max_concurrent

\* every slot is taken, an item waits, and two scheduling loops are alive
\* (a restart overlapped a stop)
C2_Witness ==
    /\ Cardinality(DOMAIN processing) = max_concurrent
    /\ HasWork
    /\ Cardinality(LiveWorkers) >= 2

\* C3: with max_queue_size items Queued, enqueue raises the capacity error and
\* changes neither the Queued list, the Processing set, the history nor any
\* item; and the Queued list never holds more than max_queue_size items.
C3_Capacity ==
    /\ [](Len(pending) <= max_queue_size)
    /\ [](Len(pending) = max_queue_size =>
             \A e \in EvalIds : EnqueueReturn(e).raised)
    /\ [][\A e \in EvalIds :
             (Len(pending) = max_queue_size /\ Enqueue(e)) =>
                UNCHANGED <<items, pending, processing, completed, tasks>>]_vars

\* the Queued list is full while a further id could be enqueued
C3_Witness ==
    /\ Len(pending) = max_queue_size
    /\ \E e \in CallIds : ~IsQueued(e) /\ ~InProcessing(e)
    /\ Len(items) < MaxItems

\* C4 (as claimed): in every reachable state, enqueue of an id that is Queued
\* or Processing returns the existing item and its position (0 if Processing)
\* and leaves the queue unchanged.
C4_IdempotentEnqueue ==
    /\ [](\A e \in EvalIds :
            /\ InProcessing(e) =>
                  EnqueueReturn(e) = [raised |-> FALSE, item |-> processing[e],
                                      position |-> 0]
            /\ IsQueued(e) =>
                  \E i \in DOMAIN pending :
                     /\ items[pending[i]].evaluation_id = e
                     /\ EnqueueReturn(e) = [raised |-> FALSE, item |-> pending[i],
                                            position |-> i])
    /\ [][\A e \in EvalIds :
             ((InProcessing(e) \/ IsQueued(e)) /\ Enqueue(e)) =>
                UNCHANGED queueVars]_vars

\* C5: no evaluation id is live twice: each id occurs at most once in the
\* Queued list and the Processing set together, and has at most one
\* evaluation in flight.
C5_NoDuplicateLive ==
    \A e \in EvalIds :
       /\ Cardinality({i \in DOMAIN pending : items[pending[i]].evaluation_id = e})
             + (IF e \in DOMAIN processing THEN 1 ELSE 0) <= 1
       /\ Cardinality({k \in tasks : items[k].evaluation_id = e}) <= 1

\* an id that completed once was enqueued again and is live a second time,
\* while another id is Processing
C5_Witness ==
    \E k1, k2 \in DOMAIN items :
       /\ k1 # k2
       /\ items[k1].evaluation_id = items[k2].evaluation_id
       /\ items[k1].completed_at = 1
       /\ k2 \in Range(pending)
       /\ DOMAIN processing # {}

\* C6: cancel of a Queued id returns true, removes exactly that item, moves
\* every item behind it up by one position and leaves the items ahead of it
\* and everything else untouched; cancel of any other id returns false and
\* changes nothing.
C6_Cancel ==
    [][UNCHANGED <<processing, completed, tasks, wpc>> =>
       \A e \in EvalIds :
             Cancel(e) =>
                IF IsQueued(e)
                THEN \E i \in DOMAIN pending :
                        /\ items[pending[i]].evaluation_id = e
                        /\ CancelReturn(e)
                        /\ Len(pending') = Len(pending) - 1
                        /\ \A j \in 1..(i - 1) :
                              /\ pending'[j] = pending[j]
                              /\ items'[pending[j]] = items[pending[j]]
                        /\ \A j \in (i + 1)..Len(pending) :
                              /\ pending'[j - 1] = pending[j]
                              /\ items'[pending[j]] =
                                    [items[pending[j]] EXCEPT
                                        !.position = items[pending[j]].position - 1]
                        /\ \A k \in DOMAIN items :
                              k \notin Range(pending) => items'[k] = items[k]
                        /\ items'[pending[i]] = items[pending[i]]
                        /\ UNCHANGED <<processing, completed, tasks, wpc,
                                       workerTask, shutdown, stopCall>>
                ELSE ~CancelReturn(e) /\ UNCHANGED queueVars]_vars

\* an item was cancelled out of the Queued list (still marked queued, never
\* started) and an item enqueued after it is now first in line
C6_Witness ==
    \E c, k \in DOMAIN items :
       /\ items[c].status = "queued"
       /\ c \notin Range(pending)
       /\ k \in Range(pending)
       /\ items[k].created_at > items[c].created_at
       /\ items[k].position = 1

(***************************************************************************)
(* Properties of the rate limiter                                          *)
(***************************************************************************)
\* the ledger records that are inside the window at time t
LiveRecords(w, t) == SelectSeq(w, LAMBDA r : r.timestamp >= t - window_seconds)

\* caller c is granted its reservation in this step
GrantStep(c) == callers[c].pc # "granted" /\ callers'[c].pc = "granted"

\* C7: under any interleaving of acquire calls alone, the charges of the
\* ledger records that have not been pruned never add up to more than the
\* effective limit, the ceiling times the safety margin rounded down.
C7_WindowWithinLimit ==
    /\ SumTokens(usageWindow) <= EffectiveLimit
    /\ SumTokens(usageWindow) * 100
          <= max_tokens_per_minute * safety_margin_percent
    /\ CurrentUsage(usageWindow, now) <= EffectiveLimit

\* C7, its case: the ledger is filled to the effective limit by more than one
\* grant while another caller has been refused for capacity and sleeps.
C7_Witness ==
    /\ Len(usageWindow) >= 2
    /\ SumTokens(usageWindow) = EffectiveLimit
    /\ \E c \in Callers : callers[c].pc = "capSleep"

\* C8: record_actual_usage(e, a) rewrites the most recent live ledger record
\* whose charge is e to a, at its place and with its timestamp, and adds no
\* record, so that the usage changes by exactly a - e; when no live record
\* has charge e it appends the record (a, now).
C8_Reconciliation ==
    [][\A c \in Callers :
          callers[c].pc = "granted" /\ callers'[c].pc = "idle" =>
             \A a \in 0..MaxTokens :
                RecordActualUsage(c, callers[c].tokens, a) =>
                   LET e == callers[c].tokens
                       live == LiveRecords(usageWindow, now)
                       matches == {i \in DOMAIN live : live[i].tokens = e}
                   IN  IF matches # {}
                       THEN LET m == CHOOSE i \in matches :
                                        \A j \in matches : j <= i
                            IN  /\ Len(usageWindow') = Len(live)
                                /\ usageWindow'[m] =
                                      [timestamp |-> live[m].timestamp,
                                       tokens |-> a]
                                /\ \A j \in DOMAIN live :
                                      j # m => usageWindow'[j] = live[j]
                                /\ CurrentUsage(usageWindow', now)
                                      = CurrentUsage(usageWindow, now) + a - e
                       ELSE usageWindow' =
                               Append(live,
                                      [timestamp |-> now, tokens |-> a])]_vars

\* C8, its case: two grants made two live records, the older one still has
\* the charge of a reservation and the more recent one, at the time of the
\* last grant, was rewritten to the actual usage 0, which no reservation
\* can have.
C8_Witness ==
    /\ Len(usageWindow) = 2
    /\ usageWindow[1].timestamp >= now - window_seconds
    /\ usageWindow[1].timestamp < usageWindow[2].timestamp
    /\ usageWindow[2].timestamp = lastRequestTime
    /\ usageWindow[1].tokens >= 1
    /\ usageWindow[2].tokens = 0

\* C9: a reservation is granted only when at least the minimum delay has
\* passed since the previous grant, whose time _last_request_time holds: it
\* is set to the time of every grant and changed by nothing else.
C9_MinimumGap ==
    [][/\ \A c \in Callers :
             GrantStep(c) =>
                /\ now - lastRequestTime >= min_delay_between_requests
                /\ lastRequestTime' = now
       /\ lastRequestTime' # lastRequestTime =>
             \E c \in Callers : GrantStep(c)]_vars

\* C9, its case: two successive grants exactly one minimum delay apart.
C9_Witness ==
    /\ Len(usageWindow) >= 2
    /\ usageWindow[Len(usageWindow)].timestamp = lastRequestTime
    /\ usageWindow[Len(usageWindow)].timestamp
          - usageWindow[Len(usageWindow) - 1].timestamp
          = min_delay_between_requests
    /\ usageWindow[Len(usageWindow)].tokens >= 1
    /\ usageWindow[Len(usageWindow) - 1].tokens >= 1

(***************************************************************************)
(* Properties of the comparator                                            *)
(***************************************************************************)
\* the order of the statuses as the specification states it
ClaimedRank(status) ==
    CASE status = "FAIL" -> 4
      [] status = "FLAGGED" -> 3
      [] status = "PASS" -> 2
      [] status = "NOT_APPLICABLE" -> 1

RankedStatuses == {"FAIL", "FLAGGED", "PASS", "NOT_APPLICABLE"}

\* the merged entries for which both sides gave one of the ranked statuses
BothRanked ==
    {i \in DOMAIN combined.results :
        /\ combined.results[i].status_claude \in RankedStatuses
        /\ combined.results[i].status_openai \in RankedStatuses}

\* C10: when both sides are non-Error the merged status is the more
\* conservative of the two under Fail(4) > Flagged(3) > Pass(2) >
\* NotApplicable(1): it is one of the two, it never ranks below either, a tie
\* keeps the primary's, and Pass against Fail gives Fail, marked a conflict.
C10_ConservativeStatus ==
    combined.done =>
       \A i \in BothRanked :
          LET r == combined.results[i]
              a == r.status_claude
              b == r.status_openai
          IN  /\ r.status \in {a, b}
              /\ ClaimedRank(r.status) >= ClaimedRank(a)
              /\ ClaimedRank(r.status) >= ClaimedRank(b)
              /\ ClaimedRank(a) = ClaimedRank(b) => r.status = a
              /\ {a, b} = {"PASS", "FAIL"} =>
                    r.status = "FAIL" /\ r.agreement_status = "conflict"

\* C10, its case: the primary said Pass, the secondary Fail, and the merged
\* entry is the secondary's Fail.
C10_Witness ==
    /\ combined.done
    /\ \E i \in BothRanked :
          /\ combined.results[i].status_claude = "PASS"
          /\ combined.results[i].status_openai = "FAIL"
          /\ combined.results[i].status = "FAIL"
          /\ combined.results[i].source_provider = "openai"

\* the two sides' records for the requirement of a merged entry (both exist
\* when neither status of the entry is "None")
ClaudeRecordOf(r) == claudeResults[Lookup(claudeResults, r.requirement_id)]
OpenaiRecordOf(r) == openaiResults[Lookup(openaiResults, r.requirement_id)]

\* the order of the confidences as the specification states it
ClaimedConfidenceRank(conf) ==
    CASE conf = "low" -> 0
      [] conf = "medium" -> 1
      [] conf = "high" -> 2

\* a side's status counts as a result: the side has a record and it is not
\* an Error
NonError(status) == status \notin {"ERROR", "None"}

\* the merged entries for which both sides gave a non-Error status
BothNonError ==
    {i \in DOMAIN combined.results :
        /\ NonError(combined.results[i].status_claude)
        /\ NonError(combined.results[i].status_openai)}

\* C11: when both sides are non-Error the merged confidence is the lower of
\* the two sides' confidences under Low < Medium < High, whichever side's
\* status was chosen: Medium and High give Medium, High and High give High.
C11_LowerConfidence ==
    combined.done =>
       \A i \in BothNonError :
          LET r == combined.results[i]
              ca == ClaudeRecordOf(r).confidence
              cb == OpenaiRecordOf(r).confidence
          IN  /\ r.confidence \in {ca, cb}
              /\ ClaimedConfidenceRank(r.confidence) <= ClaimedConfidenceRank(ca)
              /\ ClaimedConfidenceRank(r.confidence) <= ClaimedConfidenceRank(cb)
              /\ {ca, cb} = {"medium", "high"} => r.confidence = "medium"
              /\ {ca, cb} = {"high"} => r.confidence = "high"

\* C11, its case: the status and content are the secondary's (Fail against
\* the primary's Pass), the confidence is the primary's Medium against the
\* secondary's High.
C11_Witness ==
    /\ combined.done
    /\ \E i \in BothNonError :
          LET r == combined.results[i]
          IN  /\ r.status_claude = "PASS"
              /\ r.status_openai = "FAIL"
              /\ r.source_provider = "openai"
              /\ ClaudeRecordOf(r).confidence = "medium"
              /\ OpenaiRecordOf(r).confidence = "high"
              /\ r.confidence = "medium"

\* C12: every merged entry is classified agreement exactly when both sides
\* gave the same non-Error status, conflict exactly when both are non-Error
\* and differ, single_provider exactly when exactly one side is non-Error
\* (the other an Error or absent), unknown exactly when neither is; the
\* agreement map says the same.
C12_AgreementClassification ==
    combined.done =>
       \A i \in DOMAIN combined.results :
          LET r == combined.results[i]
              a == r.status_claude
              b == r.status_openai
          IN  /\ r.agreement_status = "agreement"
                    <=> (NonError(a) /\ NonError(b) /\ a = b)
              /\ r.agreement_status = "conflict"
                    <=> (NonError(a) /\ NonError(b) /\ a # b)
              /\ r.agreement_status = "single_provider"
                    <=> (NonError(a) # NonError(b))
              /\ r.agreement_status = "unknown"
                    <=> (~NonError(a) /\ ~NonError(b))
              /\ combined.agreement_map[i]
                    = <<r.requirement_id, r.agreement_status>>

\* C12, its case: both sides have a record and both are Errors, and the
\* entry is classified unknown.
C12_Witness ==
    /\ combined.done
    /\ \E i \in DOMAIN combined.results :
          /\ combined.results[i].status_claude = "ERROR"
          /\ combined.results[i].status_openai = "ERROR"
          /\ combined.results[i].agreement_status = "unknown"

(***************************************************************************)
(* Properties of the single-provider evaluator                             *)
(***************************************************************************)
\* the backend calls made so far
PrimaryCalls == Cardinality({i \in DOMAIN evaluator.log :
                                evaluator.log[i].who = "primary"})
FallbackCalls == Cardinality({i \in DOMAIN evaluator.log :
                                 evaluator.log[i].who = "fallback"})

\* a call of the primary failed transiently: an ERROR record or an exception
\* whose text is retryable
Transient(event) ==
    /\ event.who = "primary"
    /\ event.kind \in {"error", "raise"}
    /\ event.retryable

\* the primary's initial call and its retry both failed transiently
FailedTwice ==
    /\ Len(evaluator.log) >= 2
    /\ Transient(evaluator.log[1])
    /\ Transient(evaluator.log[2])

C14_RetryBound ==
    /\ PrimaryCalls <= 2
    /\ FallbackCalls <= 1
    /\ evaluator.provider = "gemini" => FallbackCalls = 0

(***************************************************************************)
(* The summary of the merged verdicts                                      *)
(***************************************************************************)
\* the merged entries for which both sides' records have status Error
BothError ==
    {i \in DOMAIN combined.results :
        /\ combined.results[i].status_claude = "ERROR"
        /\ combined.results[i].status_openai = "ERROR"}

\* the number of verdicts the histogram holds outside its Error bucket
CountedOutsideError ==
    summary.status_counts["PASS"] + summary.status_counts["FAIL"]
    + summary.status_counts["FLAGGED"] + summary.status_counts["PARTIAL"]
    + summary.status_counts["NOT_APPLICABLE"]

\* C15: when both the primary and the secondary verdict of a requirement are
\* Error, the merged verdict has status Error, confidence Low and agreement
\* status Unknown, and the histogram counts it in its Error bucket and in no
\* other bucket.
C15_BothError ==
    combined.done =>
       /\ \A i \in BothError :
             LET r == combined.results[i]
             IN  /\ r.status = "ERROR"
                 /\ r.confidence = "low"
                 /\ r.agreement_status = "unknown"
                 /\ <<r.requirement_id, "unknown">> \in Range(combined.agreement_map)
       /\ summary.by = "dual"
       /\ summary.status_counts["ERROR"] >= Cardinality(BothError)
       /\ CountedOutsideError <= Len(combined.results) - Cardinality(BothError)

\* C15, its case: a merge has run on a requirement for which both sides gave
\* Error, one of them with a confidence other than Low.
C15_Witness ==
    /\ combined.done
    /\ \E i \in BothError :
          /\ ClaudeRecordOf(combined.results[i]).confidence = "high"
          /\ OpenaiRecordOf(combined.results[i]).confidence = "medium"
    /\ summary.status_counts["ERROR"] >= 1

(***************************************************************************)
(* The compliance score                                                    *)
(***************************************************************************)
\* the verdict list the last summary was generated from
Summarised == IF summary.by = "dual" THEN combined.results ELSE claudeResults

\* the number of verdicts of a list with the status
CountOf(results, status) ==
    Cardinality({i \in DOMAIN results : results[i].status = status})

\* the verdicts of the summarised list that are scored: all but the Errors
ScoredCount == Len(Summarised) - CountOf(Summarised, "ERROR")

\* C16 as stated: the score is exactly Pass count / (total - Error count) x
\* 100 (in tenths: x 1000).
C16_ExactScore ==
    (summary.by # "none" /\ ScoredCount # 0) =>
        summary.compliance_score * ScoredCount = 1000 * CountOf(Summarised, "PASS")

\* C16, amended: the score of either summary is Pass count / (total - Error
\* count) x 100 rounded to one decimal place - the tenth nearest to the
\* quotient, and the quotient itself when it is a whole number of tenths; the
\* Error verdicts are in the Error bucket only, not in the denominator, and
\* the score is 0 when every verdict is Error; 6 Pass, 2 Fail and 2 Error give
\* 75.0.
C16_ComplianceScore ==
    summary.by # "none" =>
        LET pass == CountOf(Summarised, "PASS")
            errors == CountOf(Summarised, "ERROR")
            score == summary.compliance_score
        IN  /\ summary.total = Len(Summarised)
            /\ \A st \in Statuses :
                  summary.status_counts[st] = CountOf(Summarised, st)
            /\ ScoredCount = 0 => score = 0
            /\ ScoredCount # 0 =>
                  /\ 2 * (score * ScoredCount - 1000 * pass) <= ScoredCount
                  /\ 2 * (1000 * pass - score * ScoredCount) <= ScoredCount
                  /\ (1000 * pass) % ScoredCount = 0 =>
                        score * ScoredCount = 1000 * pass
            /\ (Len(Summarised) = 10 /\ pass = 6 /\ errors = 2
                /\ CountOf(Summarised, "FAIL") = 2) => score = 750

\* C16, its case: the merged summary of 10 verdicts with 6 Pass, 2 Fail and 2
\* Error has been generated.
C16_Witness ==
    /\ summary.by = "dual"
    /\ Len(combined.results) = 10
    /\ CountOf(combined.results, "PASS") = 6
    /\ CountOf(combined.results, "FAIL") = 2
    /\ CountOf(combined.results, "ERROR") = 2
    /\ summary.compliance_score = 750

(***************************************************************************)
(* The end of an evaluation                                                *)
(***************************************************************************)
Terminal(status) == status \in {"completed", "failed"}

\* the item is the history's entry for its evaluation id
InHistory(id) == <<items[id].evaluation_id, id>> \in Range(completed)

\* C17: a Processing item changes only by the end of its evaluation, which
\* makes it Completed when the callback returned, Failed with "Evaluation
\* timed out" on a timeout and Failed with the exception's text on an
\* exception; in every case completedAt is set, the item is no longer in the
\* Processing set and is the history's entry of its id. A Completed or Failed
\* item never changes again.
C17_TerminalOutcome ==
    [][\A id \in DOMAIN items :
          /\ (items[id].status = "processing" /\ items'[id] # items[id]) =>
                /\ \E o \in Outcomes :
                      /\ ProcessItemFinish(id, o)
                      /\ o = "returned" =>
                            /\ items'[id].status = "completed"
                            /\ items'[id].error_message = "none"
                      /\ o = "timeout" =>
                            /\ items'[id].status = "failed"
                            /\ items'[id].error_message = "Evaluation timed out"
                      /\ o = "exception" =>
                            /\ items'[id].status = "failed"
                            /\ items'[id].error_message = "exception text"
                /\ Terminal(items'[id].status)
                /\ items'[id].completed_at # 0
                /\ items[id].evaluation_id \notin DOMAIN processing'
                /\ id \notin Range(processing')
                /\ InHistory(id)'
          /\ Terminal(items[id].status) => items'[id] = items[id]
          /\ (id \in tasks /\ id \notin tasks') =>
                items[id].status = "processing" /\ Terminal(items'[id].status)
      ]_vars

\* C17, its case: one evaluation has timed out and another has returned; both
\* are out of the Processing set and in the history.
C17_Witness ==
    \E a, b \in DOMAIN items :
        /\ items[a].status = "failed"
        /\ items[a].error_message = "Evaluation timed out"
        /\ items[b].status = "completed"
        /\ items[a].completed_at # 0 /\ items[b].completed_at # 0
        /\ InHistory(a) /\ InHistory(b)
        /\ DOMAIN processing = {}

(***************************************************************************)
(* stop()                                                                  *)
(***************************************************************************)
\* the step in which a call of stop() returns: after its await of the worker
\* task, or at once when there is no worker task
StopReturns ==
    \/ stopCall.pc = "await" /\ stopCall'.pc = "idle"
    \/ StopBegin /\ workerTask = 0

\* C18: when stop() returns no item is Processing and no evaluation is
\* running.
C18_GracefulStop ==
    [][StopReturns => (tasks' = {} /\ DOMAIN processing' = {})]_vars

(***************************************************************************)
(* The status of an item                                                   *)
(***************************************************************************)
\* C19: the position of every item of the Processing set, as get_item_status
\* reports it, is 0, and enqueue reports position 0 for an id that is
\* Processing.
C19_ProcessingPositionZero ==
    \A eid \in DOMAIN processing :
        /\ GetItemStatusReturn(eid).found
        /\ GetItemStatusReturn(eid).item.status = "processing"
        /\ GetItemStatusReturn(eid).item.position = 0
        /\ ~QueueFull => EnqueueReturn(eid).position = 0

\* the live items and the history entry of an evaluation id
ProcessingOf(eid) == {k \in Range(processing) : items[k].evaluation_id = eid}
QueuedOf(eid) == {k \in Range(pending) : items[k].evaluation_id = eid}
HistoryOf(eid) == {k \in DOMAIN items : <<eid, k>> \in Range(completed)}

\* C20: get_item_status(id) returns the record of the Processing item of the
\* id if there is one, else of the Queued item, else of the history's entry,
\* and nothing only when the id is in none of the three.
C20_GetItemStatus ==
    \A eid \in EvalIds :
        LET r == GetItemStatusReturn(eid)
        IN  /\ r.found <=> (ProcessingOf(eid) \cup QueuedOf(eid)
                            \cup HistoryOf(eid)) # {}
            /\ r.found =>
                  /\ r.item.evaluation_id = eid
                  /\ r.item = [items[r.item.queue_item_id] EXCEPT
                                 !.evaluation_id = eid]
                              @@ [queue_item_id |-> r.item.queue_item_id]
            /\ ProcessingOf(eid) # {} =>
                  r.item.queue_item_id \in ProcessingOf(eid)
            /\ (ProcessingOf(eid) = {} /\ QueuedOf(eid) # {}) =>
                  r.item.queue_item_id \in QueuedOf(eid)
            /\ (ProcessingOf(eid) = {} /\ QueuedOf(eid) = {}
                /\ HistoryOf(eid) # {}) =>
                  r.item.queue_item_id \in HistoryOf(eid)

\* C20, its case: an id has a finished item in the history and a live item as
\* well, and the call returns the live one.
C20_Witness ==
    \E eid \in EvalIds :
        /\ HistoryOf(eid) # {}
        /\ ProcessingOf(eid) \cup QueuedOf(eid) # {}
        /\ GetItemStatusReturn(eid).found
        /\ GetItemStatusReturn(eid).item.queue_item_id \notin HistoryOf(eid)
        /\ \E other \in EvalIds : ~GetItemStatusReturn(other).found

(***************************************************************************)
(* handle_429_error                                                        *)
(***************************************************************************)
\* the wait estimated from the ledger: 5 s past the end of the oldest
\* record's window, at least 5 s, and 10 s with an empty ledger
ClaimedEstimate ==
    IF usageWindow = <<>> THEN 100
    ELSE IF usageWindow[1].timestamp + window_seconds - now + 50 < 50 THEN 50
    ELSE usageWindow[1].timestamp + window_seconds - now + 50

NonTransient(o) ==
    o.who = "primary" /\ o.kind \in {"error", "raise"} /\ ~o.retryable

\* a non-transient failure that is not a file access error either: the
\* malformed response ("Structured output missing ...") is one
Permanent(o) == NonTransient(o) /\ ~o.denied

\* the evaluation ended at the i-th call of its log with an Error verdict
EndedAt(i) ==
    /\ i = Len(evaluator.log)
    /\ evaluator.pc \in {"done", "gathered"}
    /\ evaluator.result = ErrorResult(evaluator.provider)

\* C22 as stated: after any non-transient error of a backend call no further
\* call is made and the verdict is Error.
C22_NonTransientNotRetried ==
    \A i \in DOMAIN evaluator.log :
        NonTransient(evaluator.log[i]) => EndedAt(i)

\* C22, amended: after a malformed response, or another error that is neither
\* transient nor a file access error, no further call is made - no retry, no
\* fallback, no new upload - and the verdict is Error.
C22_PermanentNotRetried ==
    \A i \in DOMAIN evaluator.log :
        Permanent(evaluator.log[i]) => EndedAt(i)

\* C22, its case: the retry after a transient failure got a malformed
\* response from a provider that has a fallback, and the evaluation ended
\* there.
C22_Witness ==
    /\ evaluator.pc = "done"
    /\ FALLBACK_PROVIDER(evaluator.provider) # "None"
    /\ Len(evaluator.log) = 2
    /\ evaluator.log[1].retryable
    /\ evaluator.log[2].kind = "error"
    /\ Permanent(evaluator.log[2])
    /\ evaluator.result.status = "ERROR"

(***************************************************************************)
(* The batch of one evaluator                                              *)
(***************************************************************************)
\* the results list the side's evaluate_document returned
ReturnedResults(side) == IF side = "claude" THEN claudeResults ELSE openaiResults

\* C23: evaluate_document of an evaluator returns one verdict per requirement,
\* in the order of the requirements; a requirement whose task raised has an
\* Error verdict of its own, and every other requirement has the verdict its
\* task returned, whatever happened to the rest.
C23_BatchIsolation ==
    run # NoRun =>
       \A side \in Sides :
          run[side].pc = "returned" =>
             /\ Len(ReturnedResults(side)) = BatchSize
             /\ \A i \in 1..BatchSize :
                   LET r == ReturnedResults(side)[i]
                       t == run[side].tasks[i]
                   IN  /\ r.requirement_id = i
                       /\ t.state = "raised" =>
                             r.status = "ERROR" /\ r.confidence = "low"
                       /\ t.state = "returned" => r = t.verdict

\* C23, its case: the task of the first requirement raised, the task of the
\* second returned Pass, and the evaluation returned both verdicts.
C23_Witness ==
    /\ run # NoRun
    /\ run["claude"].pc = "returned"
    /\ run["claude"].tasks[1].state = "raised"
    /\ run["claude"].tasks[BatchSize].state = "returned"
    /\ claudeResults[1].status = "ERROR"
    /\ claudeResults[BatchSize].status = "PASS"
    /\ Len(claudeResults) = BatchSize

(***************************************************************************)
(* Whole-document failures                                                 *)
(***************************************************************************)
\* the whole evaluation of one side raised and the other side's returned
OneSideFailed(failed, survivor) ==
    /\ run # NoRun
    /\ run[failed].pc = "failed"
    /\ run[survivor].pc = "returned"

\* the merged entries of a requirement
EntriesOf(i) ==
    {k \in DOMAIN combined.results : combined.results[k].requirement_id = i}

\* C24: when the whole evaluation of one side raised and the other side's
\* returned, the merged summary has every requirement, each with the
\* surviving side's status, confidence and content, agreement status
\* SingleProvider, or Unknown where the survivor's verdict is Error.
C24_OneSidedFailure ==
    \A failed \in Sides, survivor \in Sides :
       (combined.done /\ OneSideFailed(failed, survivor)) =>
          /\ Len(combined.results) = BatchSize
          /\ summary.by = "dual" /\ summary.total = BatchSize
          /\ \A i \in 1..BatchSize :
                /\ Cardinality(EntriesOf(i)) = 1
                /\ \A k \in EntriesOf(i) :
                      LET e == combined.results[k]
                          v == ReturnedResults(survivor)[i]
                      IN  /\ e.status = v.status
                          /\ e.confidence = v.confidence
                          /\ e.content = v.content
                          /\ e.source_provider = survivor
                          /\ e.agreement_status =
                                IF v.status = "ERROR" THEN "unknown"
                                ELSE "single_provider"

\* C24, its case: the primary's whole evaluation raised, the secondary
\* returned a Pass and an Error, and the two were combined.
C24_Witness ==
    /\ combined.done
    /\ OneSideFailed("claude", "openai")
    /\ openaiResults[1].status = "PASS"
    /\ openaiResults[BatchSize].status = "ERROR"
    /\ \E k \in DOMAIN combined.results :
          combined.results[k].agreement_status = "single_provider"
    /\ \E k \in DOMAIN combined.results :
          combined.results[k].agreement_status = "unknown"

\* C25: the merged summary of every run has exactly one entry for every
\* requirement of the requirement set, and its total and its histogram count
\* them all.
C25_NoMissingData ==
    (run # NoRun /\ combined.done) =>
       /\ \A i \in 1..BatchSize : Cardinality(EntriesOf(i)) = 1
       /\ Len(combined.results) = BatchSize
       /\ summary.total = BatchSize
       /\ summary.status_counts["ERROR"] =
             Cardinality({i \in 1..BatchSize :
                             \A side \in Sides :
                                \/ run[side].pc = "failed"
                                \/ ReturnedResults(side)[i].status = "ERROR"})

(***************************************************************************)
(* Provenance of the merged content                                        *)
(***************************************************************************)
\* the record of the side a merged entry names as its source; <<>> when that
\* side has no record for the requirement
SourceRecordOf(r) ==
    LET results == IF r.source_provider = "claude" THEN claudeResults
                   ELSE openaiResults
        k == Lookup(results, r.requirement_id)
    IN  IF k = 0 THEN <<>> ELSE results[k]

\* the status of the side a merged entry names as its source, as the entry
\* itself reports it
SourceStatusOf(r) ==
    IF r.source_provider = "claude" THEN r.status_claude ELSE r.status_openai

\* C26: the content of every merged entry is the content of the record of the
\* side named by source_provider, and that side's status is the merged status;
\* on agreement the source is the primary, on conflict it is the side whose
\* status is the merged (more conservative) one, and when exactly one side is
\* non-Error the source is that side, its status and confidence unchanged.
C26_ContentProvenance ==
    combined.done =>
       \A i \in DOMAIN combined.results :
          LET r == combined.results[i]
              src == SourceRecordOf(r)
              a == r.status_claude
              b == r.status_openai
          IN  /\ r.source_provider \in Sides
              /\ src # <<>>
              /\ r.content = src.content
              /\ r.status = src.status
              /\ r.status = SourceStatusOf(r)
              /\ r.agreement_status = "agreement" =>
                    r.source_provider = "claude"
              /\ r.agreement_status = "conflict" =>
                    /\ r.source_provider = "claude" <=> r.status = a
                    /\ r.source_provider = "openai" <=> r.status = b
                    /\ StatusPriority(r.status) >= StatusPriority(a)
                    /\ StatusPriority(r.status) >= StatusPriority(b)
              /\ (NonError(a) /\ ~NonError(b)) =>
                    /\ r.source_provider = "claude"
                    /\ r.confidence = src.confidence
              /\ (~NonError(a) /\ NonError(b)) =>
                    /\ r.source_provider = "openai"
                    /\ r.confidence = src.confidence

\* C26, its case: the primary said Pass, the secondary Fail, and the merged
\* entry carries the secondary's content with the secondary's Fail.
C26_Witness ==
    /\ combined.done
    /\ \E i \in DOMAIN combined.results :
          LET r == combined.results[i]
          IN  /\ r.agreement_status = "conflict"
              /\ r.status_claude = "PASS"
              /\ r.status_openai = "FAIL"
              /\ r.source_provider = "openai"
              /\ r.content = OpenaiRecordOf(r).content
              /\ r.content # ClaudeRecordOf(r).content

(***************************************************************************)
(* Properties of the constructors                                          *)
(***************************************************************************)
\* the construction was of a single-provider evaluator
SingleConstructed == construct.pc \in {"built", "raised"} /\ construct.kind = "single"

\* the name the constructor validates: the argument, or when it is missing or
\* empty the VISION_PROVIDER setting, or when that is missing or empty
\* "openai"; trimmed and lower-cased
ValidatedName ==
    Lower(Strip(IF construct.provider.given /\ construct.provider.name # <<>>
                THEN construct.provider.name
                ELSE IF construct.env.VISION_PROVIDER.given
                        /\ construct.env.VISION_PROVIDER.name # <<>>
                THEN construct.env.VISION_PROVIDER.name
                ELSE OPENAI))

Started == workerTask # 0 /\ wpc[workerTask] \in {"loop", "wait"}

\* the item with the given index was cancelled: removed from the pending list
\* while still Queued
Cancelled(k) ==
    /\ k \in DOMAIN items
    /\ items[k].status = "queued"
    /\ k \notin Range(pending)

\* the scheduling loop is waiting on the condition
Asleep == workerTask # 0 /\ wpc[workerTask] = "wait"

\* C28: with the scheduling loop started and every callback ending, every
\* item in the pending list is eventually Processing unless it is cancelled,
\* and every Processing item is eventually Completed or Failed; the loop is
\* never waiting on the condition while an item is pending and a slot is
\* free, and a step that appends to the pending list or frees a slot leaves
\* the loop awake.
C28_EventualAdmission ==
    /\ [](Asleep => ~(HasWork /\ HasSlot))
    /\ [][(Len(pending') > Len(pending)
             \/ Cardinality(DOMAIN processing') < Cardinality(DOMAIN processing))
          => ~Asleep']_vars
    /\ \A k \in 1..MaxItems :
          (Started /\ k \in Range(pending))
             ~> (k \in DOMAIN items
                   /\ (items[k].status = "processing" \/ Cancelled(k)))
    /\ \A k \in 1..MaxItems :
          (k \in DOMAIN items /\ items[k].status = "processing")
             ~> (k \in DOMAIN items
                   /\ items[k].status \in {"completed", "failed"})

\* C28, its case: every item that can be created was enqueued, the last of
\* them was processed to its end, and the loop waits on the condition again
\* with nothing pending.
C28_Witness ==
    /\ Asleep
    /\ Len(items) = MaxItems
    /\ items[MaxItems].status \in {"completed", "failed"}
    /\ pending = <<>>
    /\ processing = <<>>

(***************************************************************************)
(* Failure containment in the queue                                        *)
(***************************************************************************)
\* C29: the step in which an evaluation ends by a timeout or an exception
\* records the failure in that item (Failed, with the message, in the
\* history) and changes no field of any other item, nor the pending list, nor
\* any other entry of the Processing set; it ends no scheduling loop and sets
\* no shutdown: a loop changes only from waiting to awake. The slot is free
\* afterwards, and when a loop is running one is awake to admit the head of
\* the pending list into it.
C29_FailureContained ==
    [][\A id \in DOMAIN items :
          (id \in tasks /\ id \notin tasks' /\ items'[id].status = "failed") =>
             /\ items'[id].error_message
                   \in {"Evaluation timed out", "exception text"}
             /\ InHistory(id)'
             /\ DOMAIN items' = DOMAIN items
             /\ \A k \in DOMAIN items \ {id} : items'[k] = items[k]
             /\ pending' = pending
             /\ tasks' = tasks \ {id}
             /\ DOMAIN processing'
                   = DOMAIN processing \ {items[id].evaluation_id}
             /\ \A e \in DOMAIN processing' : processing'[e] = processing[e]
             /\ shutdown' = shutdown
             /\ workerTask' = workerTask
             /\ stopCall' = stopCall
             /\ \A w \in Workers :
                   wpc'[w] # wpc[w] => (wpc[w] = "wait" /\ wpc'[w] = "loop")
             /\ HasSlot'
             /\ (LiveWorkers # {} /\ ~shutdown /\ HasWork) =>
                   /\ \E w \in LiveWorkers' : wpc'[w] = "loop"
                   /\ HasWork'
      ]_vars

\* C29, its case: of two evaluations in progress one has timed out while a
\* third item was pending and the loop was waiting for a slot; the other is
\* still Processing, the third still pending, and the loop is awake.
C29_Witness ==
    \E a, b, c \in DOMAIN items :
        /\ items[a].status = "failed"
        /\ items[a].error_message = "Evaluation timed out"
        /\ items[b].status = "processing"
        /\ b \in tasks
        /\ c \in Range(pending)
        /\ Started /\ ~shutdown
        /\ wpc[workerTask] = "loop"
        /\ Cardinality(DOMAIN processing) = max_concurrent - 1

(***************************************************************************)
(* Cancellation                                                            *)
(***************************************************************************)
\* C30: a cancel(id) that finds the id in the pending list leaves its item
\* cancelled: Queued and in no list. A cancelled item never changes again, is
\* never in the Processing set and never has an evaluation task; an
\* evaluation task is only ever launched for the item that was at the head of
\* the pending list, which becomes Processing in the same step.
C30_CancelledNeverRuns ==
    [][LET queued == Range(pending)
           queuedAfter == Range(pending')
           processingAfter == Range(processing')
       IN  /\ (Len(pending') < Len(pending) /\ processing' = processing) =>
                 \A k \in queued :
                    Cancel(items[k].evaluation_id) =>
                       /\ k \notin queuedAfter
                       /\ items'[k].status = "queued"
           /\ \A k \in DOMAIN items :
                 /\ (items[k].status = "queued" /\ k \notin queued) =>
                       /\ items'[k] = items[k]
                       /\ k \notin queuedAfter
                       /\ k \notin tasks'
                       /\ k \notin processingAfter
                 /\ (k \in tasks' /\ k \notin tasks) =>
                       /\ pending # <<>> /\ k = Head(pending)
                       /\ items'[k].status = "processing"
           /\ \A k \in DOMAIN items' \ DOMAIN items : k \notin tasks'
      ]_vars

\* C30, its case: an item was cancelled, and the started loop, with a slot
\* free, has since found nothing to pop and waits; the item is still Queued,
\* with no start time, in no list and without a task.
C30_Witness ==
    \E k \in DOMAIN items :
        /\ Cancelled(k)
        /\ items[k].started_at = 0
        /\ Started /\ ~shutdown
        /\ wpc[workerTask] = "wait"
        /\ HasSlot
        /\ pending = <<>>
        /\ k \notin tasks
        /\ k \notin Range(processing)

(***************************************************************************)
(* Positions of the Queued items                                           *)
(***************************************************************************)
\* C31: in every state the enqueue, the pop and the cancel leave, the i-th
\* item of the pending list has position i: the positions of the Queued
\* items are 1..n in list order, without gap or duplicate, and no item is in
\* the list twice.
C31_Positions ==
    /\ \A i \in DOMAIN pending : items[pending[i]].position = i
    /\ \A i, j \in DOMAIN pending : pending[i] = pending[j] => i = j
    /\ {items[pending[i]].position : i \in DOMAIN pending} = 1..Len(pending)

\* C31, its case: the first item was popped and the second cancelled, and the
\* third, enqueued at position 3, is now the only Queued item, at position 1.
C31_Witness ==
    /\ Len(items) >= 3
    /\ items[1].status = "processing"
    /\ items[2].status = "queued" /\ 2 \notin Range(pending)
    /\ pending = <<3>>
    /\ items[3].position = 1

(***************************************************************************)
(* Properties of the history                                               *)
(***************************************************************************)
\* the evaluation ids the history has an entry for
HistoryKeys(h) == {h[i][1] : i \in DOMAIN h}

\* C32 (as claimed): the history never holds more than 50 items, and when a
\* step evicts an entry every item the history retains ended after the
\* evicted item (items are numbered in the order they end), also when an
\* evaluation id has ended more than once.
C32_OldestFirst ==
    /\ [](Len(completed) <= HistoryLimit)
    /\ [][\A i \in DOMAIN completed :
             completed[i][1] \notin HistoryKeys(completed') =>
                \A j \in DOMAIN completed' : completed'[j][2] > completed[i][2]
         ]_vars

(***************************************************************************)
(* The limiter's lock during the waits of acquire                          *)
(***************************************************************************)
\* the caller is suspended in one of acquire's two sleeps
Sleeping(c) == callers[c].pc \in {"capSleep", "gapSleep"}

\* C33 (as claimed): a caller that acquire has put to sleep, for capacity or
\* for the minimum gap, does not hold the limiter's lock. Stated for the
\* states in which a request has been granted before, so that the gap is one
\* between two requests.
C33_SleepsWithoutLock ==
    (usageWindow # <<>> /\ lastRequestTime > 0) =>
       \A c \in Callers : Sleeping(c) => lockOwner # c

(***************************************************************************)
(* Termination of acquire                                                  *)
(***************************************************************************)
\* C34 (as claimed): with time advancing and the lock granted fairly, every
\* acquire call (its estimate is at most the effective limit) is eventually
\* granted, whatever the other callers do.
C34_AcquireReturns ==
    \A c \in Callers :
       (callers[c].pc = "waitLock") ~> (callers[c].pc = "granted")

\* the ledger w is in non-decreasing order of timestamps
TimeOrdered(w) ==
    \A i \in 1..(Len(w) - 1) : w[i].timestamp <= w[i + 1].timestamp

\* C35: after every step that changes the ledger or the clock (the ledger is
\* empty at the start) the ledger is in non-decreasing order of timestamps,
\* so that pruning from the head leaves exactly the records inside the window
\* and the usage read is the sum of their charges; the step keeps every
\* record that is inside the window at its place and with its timestamp, and
\* adds records at the end only, with the current time.
C35_LedgerExact ==
    [][(usageWindow' # usageWindow \/ now' # now) =>
          LET old == LiveRecords(usageWindow, now')
              new == LiveRecords(usageWindow', now')
          IN  /\ TimeOrdered(usageWindow')
              /\ PruneOldRecords(usageWindow', now') = new
              /\ CurrentUsage(usageWindow', now') = SumTokens(new)
              /\ Len(new) >= Len(old)
              /\ \A i \in DOMAIN old : new[i].timestamp = old[i].timestamp
              /\ \A i \in DOMAIN new :
                     i > Len(old) => new[i].timestamp = now']_vars

\* C35, its case: the ledger holds a record that has left the window and is
\* not pruned yet, a record exactly one window old, and a record inside the
\* window that a correction rewrote in place to the usage 0.
C35_Witness ==
    /\ Len(usageWindow) = 3
    /\ usageWindow[1].timestamp < now - window_seconds
    /\ usageWindow[2].timestamp = now - window_seconds
    /\ usageWindow[3].timestamp > now - window_seconds
    /\ usageWindow[3].timestamp = lastRequestTime
    /\ usageWindow[3].tokens = 0

(***************************************************************************)
(* Properties of the fan-out                                               *)
(***************************************************************************)
InFlightPrimary == {t \in DOMAIN fanout.tasks : fanout.tasks[t].pc = "call"}
InFlightFallback ==
    {t \in DOMAIN fanout.tasks : fanout.tasks[t].pc = "fallbackCall"}

\* the calls in flight to the primary backend never exceed its limit, and
\* the slots taken are those of the calls in flight: a task in its backoff
\* holds none
PrimaryWithinLimit ==
    fanout.semaphore # <<>> =>
       /\ Cardinality(InFlightPrimary) <= fanout.concurrent_requests
       /\ fanout.provider = "claude" =>
             Cardinality(InFlightPrimary) <= PROVIDER_CONCURRENCY("claude")
       /\ fanout.semaphore[1] + Cardinality(InFlightPrimary)
             = fanout.concurrent_requests

\* C36: during one evaluate_document the calls in flight to the primary
\* backend never exceed the evaluator's limit, a task in its retry backoff
\* holds no slot, and the calls in flight to the fallback backend never
\* exceed the fallback provider's limit.
C36_ConcurrencyLimit ==
    /\ PrimaryWithinLimit
    /\ FALLBACK_PROVIDER(fanout.provider) # "None" =>
          Cardinality(InFlightFallback)
             <= PROVIDER_CONCURRENCY(FALLBACK_PROVIDER(fanout.provider))

\* C37: under any interleaving of acquire and record_actual_usage calls the
\* current usage, the sum of the charges of the records inside the window,
\* never exceeds the effective limit.
C37_UsageWithinLimit == CurrentUsage(usageWindow, now) <= EffectiveLimit

(***************************************************************************)
(* Deadlock freedom of the queue                                           *)
(***************************************************************************)
\* the tasks that can be blocked on the queue's synchronisation are the
\* scheduling loops: a loop is blocked when it waits on the condition. The
\* state lock and the condition's lock are free in every state: no handler
\* suspends while it holds one of them.
AllLoopsBlocked == LiveWorkers # {} /\ \A w \in LiveWorkers : wpc[w] = "wait"

\* C38: in no reachable state are all scheduling loops waiting on the
\* condition while an item is pending and a slot is free, whatever the
\* interleaving of enqueue, cancel, status queries, the loop, the ends of
\* evaluations, start and stop.
C38_NoDeadlock ==
    (pending # <<>> /\ Cardinality(DOMAIN processing) < max_concurrent)
       => ~AllLoopsBlocked

\* C38, its case: an evaluation has ended and freed a slot while an item is
\* pending; of two scheduling loops one still waits on the condition and
\* the other was woken.
C38_Witness ==
    /\ pending # <<>>
    /\ Cardinality(DOMAIN processing) < max_concurrent
    /\ \E k \in DOMAIN items : items[k].status \in {"completed", "failed"}
    /\ \E w \in LiveWorkers : wpc[w] = "wait"
    /\ \E w \in LiveWorkers : wpc[w] = "loop"

(***************************************************************************)
(* Consistency of the queue's collections with the items' states           *)
(***************************************************************************)
\* the items of the pending list are Queued and not started, those of the
\* Processing set are Processing, started and not ended, those of the
\* history are Completed or Failed and ended
CollectionsConsistent ==
    /\ \A i \in DOMAIN pending :
          /\ items[pending[i]].status = "queued"
          /\ items[pending[i]].started_at = 0
          /\ items[pending[i]].completed_at = 0
    /\ \A e \in DOMAIN processing :
          /\ items[processing[e]].status = "processing"
          /\ items[processing[e]].started_at # 0
          /\ items[processing[e]].completed_at = 0
    /\ \A i \in DOMAIN completed :
          /\ items[completed[i][2]].status \in {"completed", "failed"}
          /\ items[completed[i][2]].completed_at # 0

\* C39: in every state between two handlers (the state lock is free) the
\* pending list, the Processing set and the history hold items of the
\* matching state and timestamps; an item's state changes only from Queued
\* to Processing and from Processing to Completed or Failed, and a terminal
\* state never changes.
C39_Consistency ==
    /\ [] CollectionsConsistent
    /\ [][\A id \in DOMAIN items :
             /\ id \in DOMAIN items'
             /\ items'[id].status # items[id].status =>
                   \/ /\ items[id].status = "queued"
                      /\ items'[id].status = "processing"
                   \/ /\ items[id].status = "processing"
                      /\ items'[id].status \in {"completed", "failed"}
         ]_vars

\* C39, its case: at once one item is pending, one is processing, one has
\* ended Completed and one has ended Failed and was enqueued again.
C39_Witness ==
    /\ pending # <<>>
    /\ DOMAIN processing # {}
    /\ \E i \in DOMAIN completed :
          /\ items[completed[i][2]].status = "failed"
          /\ \/ completed[i][1] \in DOMAIN processing
             \/ PendingIndex(completed[i][1]) # 0
====
